---- MODULE Spec2Model ----
(***************************************************************************)
(* Apple Container Helper: a VS Code extension that shells out to the      *)
(* `container` CLI, reconciles its JSON and table listings, renders a tree *)
(* view and dispatches user actions.                                       *)
(*                                                                         *)
(* Text is modelled as a sequence of one-character strings, so that split, *)
(* trim, includes and toLowerCase are computed on characters as the code   *)
(* computes them.  The value `undefined` is the one-element sequence       *)
(* Undefined, whose element is not a character.                            *)
(***************************************************************************)
EXTENDS Integers, Sequences, FiniteSets, TLC

(* ------------------------------ bounds --------------------------------- *)
MaxEntries == 2     \* JSON entries in one listing
MaxLines   == 2     \* data lines of one table listing
MaxImages  == 1     \* raw images in one image listing
MaxTasks   == 2     \* handler invocations started in one behaviour

(* ------------------------- JavaScript values --------------------------- *)
Undefined == <<"undefined">>
EmptyStr  == <<>>

\* JS truthiness of a string-or-undefined value
Truthy(x) == x # Undefined /\ x # EmptyStr

\* JS `a || b`
OrElse(a, b) == IF Truthy(a) THEN a ELSE b

IsWS(c) == c \in {" ", "\t", "\n", "\r"}

\* The k-th smallest element of a finite set of integers
Kth(S, k) == CHOOSE x \in S : Cardinality({y \in S : y < x}) = k - 1

\* String.prototype.split(sep) for a one-character separator: the pieces
\* between consecutive occurrences of sep, empty pieces included
Split(s, sep) ==
    LET P        == {i \in 1..Len(s) : s[i] = sep}
        n        == Cardinality(P)
        first(k) == IF k = 1 THEN 1 ELSE Kth(P, k - 1) + 1
        last(k)  == IF k = n + 1 THEN Len(s) ELSE Kth(P, k) - 1
    IN  [k \in 1..(n + 1) |-> SubSeq(s, first(k), last(k))]

\* String.prototype.trim()
Trim(s) ==
    LET N == {i \in 1..Len(s) : ~IsWS(s[i])}
    IN  IF N = {} THEN <<>>
        ELSE SubSeq(s, Kth(N, 1), Kth(N, Cardinality(N)))

\* String.prototype.split(/\s+/): every maximal run of whitespace separates;
\* a leading or trailing run leaves an empty piece at that end
SplitWS(s) ==
    LET B        == {i \in 1..Len(s) : ~IsWS(s[i]) /\ (i = 1 \/ IsWS(s[i - 1]))}
        E        == {i \in 1..Len(s) : ~IsWS(s[i]) /\ (i = Len(s) \/ IsWS(s[i + 1]))}
        n        == Cardinality(B)
        words    == [k \in 1..n |-> SubSeq(s, Kth(B, k), Kth(E, k))]
    IN  IF s = <<>> THEN << <<>> >>
        ELSE (IF IsWS(s[1]) THEN << <<>> >> ELSE <<>>)
             \o words
             \o (IF IsWS(s[Len(s)]) THEN << <<>> >> ELSE <<>>)

\* String.prototype.includes(frag)
Includes(s, frag) ==
    \E i \in 0..(Len(s) - Len(frag)) : SubSeq(s, i + 1, i + Len(frag)) = frag

UpperToLower ==
    [c \in {"A","B","C","D","E","F","G","H","I","J","K","L","M",
            "N","O","P","Q","R","S","T","U","V","W","X","Y","Z"} |->
        CASE c = "A" -> "a" [] c = "B" -> "b" [] c = "C" -> "c" [] c = "D" -> "d"
          [] c = "E" -> "e" [] c = "F" -> "f" [] c = "G" -> "g" [] c = "H" -> "h"
          [] c = "I" -> "i" [] c = "J" -> "j" [] c = "K" -> "k" [] c = "L" -> "l"
          [] c = "M" -> "m" [] c = "N" -> "n" [] c = "O" -> "o" [] c = "P" -> "p"
          [] c = "Q" -> "q" [] c = "R" -> "r" [] c = "S" -> "s" [] c = "T" -> "t"
          [] c = "U" -> "u" [] c = "V" -> "v" [] c = "W" -> "w" [] c = "X" -> "x"
          [] c = "Y" -> "y" [] c = "Z" -> "z"]

\* String.prototype.toLowerCase()
ToLowerCase(s) ==
    [i \in 1..Len(s) |-> IF s[i] \in DOMAIN UpperToLower THEN UpperToLower[s[i]] ELSE s[i]]

\* Array.prototype.find(entry => entry.id === id): the first element with
\* that id; `found` is FALSE when find returns undefined
NoEntry == [found |-> FALSE, id |-> EmptyStr, os |-> Undefined, arch |-> Undefined,
            ipAddress |-> Undefined]

\* find() whose test accepts every entry
FindFirstEntry(entries, id) == IF entries = <<>> THEN NoEntry ELSE Head(entries)

RECURSIVE FindById(_, _)
FindById(entries, id) ==
    IF entries = <<>> THEN NoEntry
    ELSE IF Head(entries).id = id THEN Head(entries)
         ELSE FindById(Tail(entries), id)

(* ------------------------------ literals ------------------------------- *)
unknown == <<"u","n","k","n","o","w","n">>
NA      == <<"N","/","A">>
latest  == <<"l","a","t","e","s","t">>
running == <<"r","u","n","n","i","n","g">>

(* --------------------- ContainerManager (listing) ---------------------- *)

\* parseTableLine keeping the id of a line of fewer than 6 tokens
parseTableLineKeepShort(line) ==
    LET parts == SplitWS(Trim(line))
    IN  IF Len(parts) >= 6
        THEN [found |-> TRUE, id |-> parts[1], os |-> parts[3], arch |-> parts[4],
              ipAddress |-> IF parts[6] # NA THEN parts[6] ELSE Undefined]
        ELSE [found |-> TRUE, id |-> parts[1], os |-> Undefined, arch |-> Undefined,
              ipAddress |-> Undefined]

\* parseTableLine storing the IP token as it is
parseTableLineRawIp(line) ==
    LET parts == SplitWS(Trim(line))
    IN  IF Len(parts) >= 6
        THEN [found |-> TRUE, id |-> parts[1], os |-> parts[3], arch |-> parts[4],
              ipAddress |-> parts[6]]
        ELSE [found |-> TRUE, id |-> EmptyStr, os |-> Undefined, arch |-> Undefined,
              ipAddress |-> Undefined]

\* One line of the table: { id, os, arch, ipAddress } or { id: '' }
parseTableLine(line) ==
    LET parts == SplitWS(Trim(line))
    IN  IF Len(parts) >= 6
        THEN [found |-> TRUE, id |-> parts[1], os |-> parts[3], arch |-> parts[4],
              ipAddress |-> IF parts[6] # NA THEN parts[6] ELSE Undefined]
        ELSE [found |-> TRUE, id |-> EmptyStr, os |-> Undefined, arch |-> Undefined,
              ipAddress |-> Undefined]

parseContainerTable(output) ==
    LET lines == Tail(Split(output, "\n"))       \* slice(1): skip the header
    IN  SelectSeq([i \in 1..Len(lines) |-> parseTableLine(lines[i])],
                  LAMBDA entry : Truthy(entry.id))

\* containerId taking the id from the hostname
containerIdFromHostname(rawContainer) ==
    IF rawContainer.hasConfig THEN OrElse(rawContainer.hostname, unknown) ELSE unknown

\* containerId without the 'unknown' fallback
containerIdNoFallback(rawContainer) ==
    IF rawContainer.hasConfig THEN rawContainer.id ELSE Undefined

\* const config = rawContainer.configuration || {}; const id = config.id || 'unknown'
containerId(rawContainer) ==
    IF rawContainer.hasConfig THEN OrElse(rawContainer.id, unknown) ELSE unknown

\* The map callback naming every record by its id, whatever its hostname
mergeContainerNameFromId(rawContainer, containerTable) ==
    LET id         == containerId(rawContainer)
        tableEntry == FindById(containerTable, id)
    IN  [id        |-> id,
         name      |-> id,
         image     |-> IF rawContainer.hasConfig
                       THEN OrElse(rawContainer.reference, unknown) ELSE unknown,
         status    |-> OrElse(rawContainer.status, unknown),
         ports     |-> EmptyStr,
         created   |-> unknown,
         ipAddress |-> IF tableEntry.found THEN tableEntry.ipAddress ELSE Undefined,
         os        |-> IF tableEntry.found THEN tableEntry.os ELSE Undefined,
         arch      |-> IF tableEntry.found THEN tableEntry.arch ELSE Undefined]

\* The callback of rawContainers.map
mergeContainer(rawContainer, containerTable) ==
    LET id         == containerId(rawContainer)
        image      == IF rawContainer.hasConfig
                      THEN OrElse(rawContainer.reference, unknown) ELSE unknown
        hostname   == IF rawContainer.hasConfig THEN rawContainer.hostname ELSE Undefined
        tableEntry == FindById(containerTable, id)
    IN  [id        |-> id,
         name      |-> OrElse(hostname, id),
         image     |-> image,
         status    |-> OrElse(rawContainer.status, unknown),
         ports     |-> EmptyStr,
         created   |-> unknown,
         ipAddress |-> IF tableEntry.found THEN tableEntry.ipAddress ELSE Undefined,
         os        |-> IF tableEntry.found THEN tableEntry.os ELSE Undefined,
         arch      |-> IF tableEntry.found THEN tableEntry.arch ELSE Undefined]

\* A catch block that rethrows instead of reporting
listContainersRethrow == [value |-> <<>>, notice |-> FALSE, thrown |-> TRUE]

\* The catch block of listContainers
listContainersCatch == [value |-> <<>>, notice |-> TRUE, thrown |-> FALSE]

\* listContainers keeping only the entries that have a table row (inner join)
listContainersInnerJoin(json, table) ==
    IF json.kind # "array" THEN listContainersCatch
    ELSE IF ~table.ok THEN listContainersCatch
    ELSE IF \E i \in 1..Len(json.entries) : json.entries[i].isNull
         THEN listContainersCatch
    ELSE LET containerTable == parseContainerTable(table.stdout)
         IN  [value  |-> SelectSeq([i \in 1..Len(json.entries) |->
                                      mergeContainer(json.entries[i], containerTable)],
                                   LAMBDA c : FindById(containerTable, c.id).found),
              notice |-> FALSE,
              thrown |-> FALSE]

\* json  : [kind: "cmdfail" | "malformed" | "notarray" | "array", entries]
\* table : [ok: BOOLEAN, stdout]
listContainers(json, table) ==
    IF json.kind # "array" THEN listContainersCatch
    ELSE IF ~table.ok THEN listContainersCatch
    ELSE IF \E i \in 1..Len(json.entries) : json.entries[i].isNull
         THEN listContainersCatch        \* TypeError reading null.configuration
    ELSE LET containerTable == parseContainerTable(table.stdout)
         IN  [value  |-> [i \in 1..Len(json.entries) |->
                              mergeContainer(json.entries[i], containerTable)],
              notice |-> FALSE,
              thrown |-> FALSE]

(* -------------------- ContainerManager.listImages ---------------------- *)

\* Math.round(size / 1024)
RoundKB(size) == (2 * size + 1024) \div 2048

\* The callback of rawImages.map.  rawImage : [reference, digest, size]
\* (size 0 stands for an absent or zero descriptor.size)
mapImage(rawImage) ==
    LET reference        == OrElse(rawImage.reference, EmptyStr)
        repositoryWithTag == Split(reference, "@")[1]
        parts            == Split(repositoryWithTag, ":")
        repository       == parts[1]
        tag              == IF Len(parts) >= 2 THEN parts[2] ELSE Undefined
    IN  [id         |-> OrElse(rawImage.digest, EmptyStr),
         repository |-> OrElse(repository, unknown),
         tag        |-> OrElse(tag, latest),
         size       |-> IF rawImage.size # 0
                        THEN [known |-> TRUE, kb |-> RoundKB(rawImage.size)]
                        ELSE [known |-> FALSE, kb |-> 0],
         created    |-> unknown,
         reference  |-> reference]

listImagesCatch == [value |-> <<>>, notice |-> TRUE, thrown |-> FALSE]

\* json : [kind: "cmdfail" | "malformed" | "notarray" | "array", entries]
listImages(json) ==
    IF json.kind # "array" THEN listImagesCatch
    ELSE [value  |-> [i \in 1..Len(json.entries) |-> mapImage(json.entries[i])],
          notice |-> FALSE,
          thrown |-> FALSE]

(* ------------------ the image named to the CLI ------------------------- *)

\* removeImage command: ContainerManager.removeImage(item.image.id)
removeImageArg(image) == image.id

\* inspectImage command: ContainerManager.inspectImageJson(image.reference)
inspectImageArg(image) == image.reference

\* runFromImage command: runContainer(`${item.image.repository}:${item.image.tag}`, ...)
runFromImageArg(image) == image.repository \o <<":">> \o image.tag

\* advancedRunFromImage command: createOrShow(extensionUri, item.image.reference);
\* the form's image field starts as value="${imageReference || ''}"
advancedRunFromImageArg(image) == OrElse(image.reference, EmptyStr)

NoImageCmd == [op |-> "", item |-> 0, arg |-> EmptyStr]

(* ------------------- ContainerProvider (tree view) --------------------- *)

Example(label, pre, ip, post) ==
    [label |-> label, type |-> "copy-command", pre |-> pre, val |-> ip, post |-> post]

\* The image-name fragments of the heuristic, group by group
KnownGroups ==
    << [label |-> "Redis CLI", pre |-> "redis-cli -h ", post |-> " -p 6379",
        frags |-> {<<"r","e","d","i","s">>}],
       [label |-> "PostgreSQL", pre |-> "psql -h ", post |-> " -p 5432 -U postgres",
        frags |-> {<<"p","o","s","t","g","r","e","s">>, <<"p","o","s","t","g","r","e","s","q","l">>}],
       [label |-> "MySQL/MariaDB", pre |-> "mysql -h ", post |-> " -P 3306 -u root -p",
        frags |-> {<<"m","y","s","q","l">>, <<"m","a","r","i","a","d","b">>}],
       [label |-> "MongoDB", pre |-> "mongosh mongodb://", post |-> ":27017",
        frags |-> {<<"m","o","n","g","o">>}],
       [label |-> "Cassandra", pre |-> "cqlsh ", post |-> " 9042",
        frags |-> {<<"c","a","s","s","a","n","d","r","a">>}],
       [label |-> "Web Server", pre |-> "curl http://", post |-> ":80",
        frags |-> {<<"n","g","i","n","x">>, <<"a","p","a","c","h","e">>, <<"h","t","t","p","d">>}],
       [label |-> "Node.js App", pre |-> "curl http://", post |-> ":3000",
        frags |-> {<<"n","o","d","e">>, <<"e","x","p","r","e","s","s">>}],
       [label |-> "Python App", pre |-> "curl http://", post |-> ":8000",
        frags |-> {<<"p","y","t","h","o","n">>, <<"f","l","a","s","k">>, <<"d","j","a","n","g","o">>}],
       [label |-> "Java App", pre |-> "curl http://", post |-> ":8080",
        frags |-> {<<"j","a","v","a">>, <<"s","p","r","i","n","g">>, <<"t","o","m","c","a","t">>}],
       [label |-> "RabbitMQ Management", pre |-> "http://", post |-> ":15672",
        frags |-> {<<"r","a","b","b","i","t","m","q">>}],
       [label |-> "Kafka Bootstrap", pre |-> "", post |-> ":9092",
        frags |-> {<<"k","a","f","k","a">>}],
       [label |-> "Elasticsearch", pre |-> "curl http://", post |-> ":9200",
        frags |-> {<<"e","l","a","s","t","i","c","s","e","a","r","c","h">>}],
       [label |-> "Jenkins", pre |-> "http://", post |-> ":8080",
        frags |-> {<<"j","e","n","k","i","n","s">>}],
       [label |-> "GitLab", pre |-> "http://", post |-> ":80",
        frags |-> {<<"g","i","t","l","a","b">>}] >>

GroupMatches(g, imageLower) == \E f \in KnownGroups[g].frags : Includes(imageLower, f)

CommonPorts(ip) == Example("Common Ports", "", ip, ":PORT (80, 8080, 3000, 5000)")

\* A heuristic that emits the example of every matching group
getConnectionExamplesEveryMatch(container) ==
    LET imageLower == ToLowerCase(container.image)
        hits == SelectSeq([g \in 1..Len(KnownGroups) |-> g],
                          LAMBDA g : GroupMatches(g, imageLower))
    IN  IF hits = <<>> THEN << CommonPorts(container.ipAddress) >>
        ELSE [k \in 1..Len(hits) |->
                 Example(KnownGroups[hits[k]].label, KnownGroups[hits[k]].pre,
                         container.ipAddress, KnownGroups[hits[k]].post)]

\* A heuristic that appends the common-ports suggestion to every answer
getConnectionExamplesAlwaysCommon(container) ==
    LET imageLower == ToLowerCase(container.image)
        hits == SelectSeq([g \in 1..Len(KnownGroups) |-> g],
                          LAMBDA g : GroupMatches(g, imageLower))
    IN  (IF hits = <<>>
         THEN (IF \E f \in { <<"w","e","b">>, <<"s","e","r","v","e","r">>, <<"a","p","i">> } :
                     Includes(imageLower, f)
               THEN << Example("Default Web Port", "http://", container.ipAddress, ":8080") >>
               ELSE <<>>)
         ELSE << Example(KnownGroups[hits[1]].label, KnownGroups[hits[1]].pre,
                         container.ipAddress, KnownGroups[hits[1]].post) >>)
        \o << CommonPorts(container.ipAddress) >>

getConnectionExamples(container) ==
    LET ip         == container.ipAddress
        imageLower == ToLowerCase(container.image)
        has(w)     == Includes(imageLower, w)
    IN  IF has(<<"r","e","d","i","s">>)
        THEN << Example("Redis CLI", "redis-cli -h ", ip, " -p 6379") >>
        ELSE IF has(<<"p","o","s","t","g","r","e","s">>)
                \/ has(<<"p","o","s","t","g","r","e","s","q","l">>)
        THEN << Example("PostgreSQL", "psql -h ", ip, " -p 5432 -U postgres") >>
        ELSE IF has(<<"m","y","s","q","l">>) \/ has(<<"m","a","r","i","a","d","b">>)
        THEN << Example("MySQL/MariaDB",
                        IF has(<<"m","a","r","i","a","d","b">>)
                        THEN "mariadb -h " ELSE "mysql -h ",
                        ip, " -P 3306 -u root -p") >>
        ELSE IF has(<<"m","o","n","g","o">>)
        THEN << Example("MongoDB", "mongosh mongodb://", ip, ":27017") >>
        ELSE IF has(<<"c","a","s","s","a","n","d","r","a">>)
        THEN << Example("Cassandra", "cqlsh ", ip, " 9042") >>
        ELSE IF has(<<"n","g","i","n","x">>) \/ has(<<"a","p","a","c","h","e">>)
                \/ has(<<"h","t","t","p","d">>)
        THEN << Example("Web Server", "curl http://", ip, ":80") >>
        ELSE IF has(<<"n","o","d","e">>) \/ has(<<"e","x","p","r","e","s","s">>)
        THEN << Example("Node.js App", "curl http://", ip, ":3000") >>
        ELSE IF has(<<"p","y","t","h","o","n">>) \/ has(<<"f","l","a","s","k">>)
                \/ has(<<"d","j","a","n","g","o">>)
        THEN << Example("Python App", "curl http://", ip, ":8000") >>
        ELSE IF has(<<"j","a","v","a">>) \/ has(<<"s","p","r","i","n","g">>)
                \/ has(<<"t","o","m","c","a","t">>)
        THEN << Example("Java App", "curl http://", ip, ":8080") >>
        ELSE IF has(<<"r","a","b","b","i","t","m","q">>)
        THEN << Example("RabbitMQ Management", "http://", ip, ":15672") >>
        ELSE IF has(<<"k","a","f","k","a">>)
        THEN << Example("Kafka Bootstrap", "", ip, ":9092") >>
        ELSE IF has(<<"e","l","a","s","t","i","c","s","e","a","r","c","h">>)
        THEN << Example("Elasticsearch", "curl http://", ip, ":9200") >>
        ELSE IF has(<<"j","e","n","k","i","n","s">>)
        THEN << Example("Jenkins", "http://", ip, ":8080") >>
        ELSE IF has(<<"g","i","t","l","a","b">>)
        THEN << Example("GitLab", "http://", ip, ":80") >>
        ELSE (IF has(<<"w","e","b">>) \/ has(<<"s","e","r","v","e","r">>)
                 \/ has(<<"a","p","i">>)
              THEN << Example("Default Web Port", "http://", ip, ":8080") >>
              ELSE <<>>)
             \o << Example("Common Ports", "", ip, ":PORT (80, 8080, 3000, 5000)") >>

DetailItem(label, type, val) ==
    [label |-> label, type |-> type, pre |-> "", val |-> val, post |-> ""]

\* getContainerDetails with the examples shown whenever there is an IP
getContainerDetailsWhenIp(container) ==
    LET isRunning == Includes(ToLowerCase(container.status), running)
    IN  << DetailItem("Container ID", "copy-id", container.id) >>
        \o (IF Truthy(container.ipAddress)
            THEN << DetailItem("IP Address", "copy-ip", container.ipAddress) >>
            ELSE <<>>)
        \o << DetailItem("Image", "copy-image", container.image) >>
        \o << [label |-> "Status", type |-> "status",
               pre |-> IF isRunning THEN "play " ELSE "stop ",
               val |-> container.status, post |-> ""] >>
        \o (IF Truthy(container.ipAddress)
            THEN getConnectionExamples(container)
                 \o << [label |-> "Base URL", type |-> "copy-url", pre |-> "http://",
                        val |-> container.ipAddress, post |-> ""],
                       [label |-> "SSH Access", type |-> "copy-command",
                        pre |-> "ssh user@", val |-> container.ipAddress, post |-> ""] >>
            ELSE <<>>)
        \o (IF Truthy(container.os) /\ Truthy(container.arch)
            THEN << [label |-> "Platform", type |-> "platform", pre |-> "",
                     val |-> container.os \o <<"/">> \o container.arch, post |-> ""] >>
            ELSE <<>>)
        \o (IF Truthy(container.created)
               /\ container.created # <<"U","n","k","n","o","w","n">>
            THEN << DetailItem("Created", "created", container.created) >>
            ELSE <<>>)

getContainerDetails(container) ==
    LET isRunning == Includes(ToLowerCase(container.status), running)
    IN  << DetailItem("Container ID", "copy-id", container.id) >>
        \o (IF Truthy(container.ipAddress)
            THEN << DetailItem("IP Address", "copy-ip", container.ipAddress) >>
            ELSE <<>>)
        \o << DetailItem("Image", "copy-image", container.image) >>
        \o << [label |-> "Status", type |-> "status",
               pre |-> IF isRunning THEN "play " ELSE "stop ",
               val |-> container.status, post |-> ""] >>
        \o (IF Truthy(container.ipAddress) /\ isRunning
            THEN getConnectionExamples(container)
                 \o << [label |-> "Base URL", type |-> "copy-url", pre |-> "http://",
                        val |-> container.ipAddress, post |-> ""],
                       [label |-> "SSH Access", type |-> "copy-command",
                        pre |-> "ssh user@", val |-> container.ipAddress, post |-> ""] >>
            ELSE <<>>)
        \o (IF Truthy(container.os) /\ Truthy(container.arch)
            THEN << [label |-> "Platform", type |-> "platform", pre |-> "",
                     val |-> container.os \o <<"/">> \o container.arch, post |-> ""] >>
            ELSE <<>>)
        \o (IF Truthy(container.created)
               /\ container.created # <<"U","n","k","n","o","w","n">>
            THEN << DetailItem("Created", "created", container.created) >>
            ELSE <<>>)

(* ----------------- ContainerManager.runContainerAdvanced ---------------- *)
\* The command line is kept as the sequence of the pieces the code appends
\* to cmd, each piece being the text between two of the blanks the code
\* itself writes.  An option that is '' or undefined is the empty string.

\* `${n}` for a number
Digit(d) ==
    CASE d = 0 -> "0" [] d = 1 -> "1" [] d = 2 -> "2" [] d = 3 -> "3" [] d = 4 -> "4"
      [] d = 5 -> "5" [] d = 6 -> "6" [] d = 7 -> "7" [] d = 8 -> "8" [] d = 9 -> "9"

RECURSIVE NumText(_)
NumText(n) == IF n < 10 THEN Digit(n) ELSE NumText(n \div 10) \o Digit(n % 10)

\* `"${x}"`
Quoted(x) == "\"" \o x \o "\""

\* if (options?.x) cmd += ' --flag'
FlagIf(cond, flag) == IF cond THEN << flag >> ELSE <<>>

\* if (options?.x) cmd += ` --flag ${options.x}`
FlagWith(flag, value, text) == IF value # "" THEN << flag, text >> ELSE <<>>

\* options.xs.forEach(x => { cmd += ` flag ${x}` })
RECURSIVE ForEachFlag(_, _)
ForEachFlag(flag, items) ==
    IF items = <<>> THEN <<>>
    ELSE << flag, Head(items) >> \o ForEachFlag(flag, Tail(items))

\* Runtime options
runtimeFlags(options) ==
    FlagIf(options.detach, "--detach") \o FlagIf(options.interactive, "--interactive")
        \o FlagIf(options.tty, "--tty") \o FlagIf(options.remove, "--rm")

\* Container management
identityFlags(options) ==
    FlagWith("--name", options.name, options.name)
        \o FlagWith("--workdir", options.workdir, Quoted(options.workdir))
        \o FlagWith("--user", options.user, options.user)
        \o FlagWith("--entrypoint", options.entrypoint, Quoted(options.entrypoint))

\* Resources
resourceFlags(options) ==
    (IF options.cpus # 0 THEN << "--cpus", NumText(options.cpus) >> ELSE <<>>)
        \o FlagWith("--memory", options.memory, options.memory)

\* A builder that passes the network and the ports on to the CLI
networkFlagsPublished(options) ==
    FlagWith("--network", options.network, options.network)
        \o ForEachFlag("-p", options.ports \o options.referencePorts)

\* What the code appends for options.network, options.ports and
\* options.referencePorts: nothing (the two notes in the source)
networkFlags(options) == <<>>

\* The multi-value flags with the environment before the volumes
multiValueFlagsEnvFirst(options) ==
    ForEachFlag("--dns", options.dns) \o ForEachFlag("-e", options.env)
        \o ForEachFlag("-v", options.volumes) \o ForEachFlag("-l", options.labels)

\* DNS, storage, environment and labels
multiValueFlags(options) ==
    ForEachFlag("--dns", options.dns) \o ForEachFlag("-v", options.volumes)
        \o ForEachFlag("-e", options.env) \o ForEachFlag("-l", options.labels)

\* The value of cmd when it is sent to the terminal
runCommand(image, options) ==
    << "container run" >>
        \o runtimeFlags(options) \o identityFlags(options) \o networkFlags(options)
        \o resourceFlags(options) \o multiValueFlags(options)
        \o << image >>
        \o (IF options.command # "" THEN << options.command >> ELSE <<>>)

\* options.referencePorts.join(', ')
RECURSIVE JoinComma(_)
JoinComma(items) ==
    IF items = <<>> THEN ""
    ELSE IF Len(items) = 1 THEN Head(items)
    ELSE Head(items) \o ", " \o JoinComma(Tail(items))

\* The text of the information message scheduled by setTimeout
advisoryText(options) ==
    "Container started! Use 'container ls' to get the IP address, then access ports "
        \o JoinComma(options.referencePorts) \o " directly on that IP."

NoRun == [returned |-> FALSE, value |-> FALSE, sent |-> <<>>, terminal |-> "",
          timer |-> FALSE, notices |-> <<>>]

\* runContainerAdvanced up to its return; createTerminal may throw
runContainerAdvanced(image, options, terminalOk) ==
    IF terminalOk
    THEN [returned |-> TRUE, value |-> TRUE,
          sent     |-> runCommand(image, options),
          terminal |-> "Container Run",
          timer    |-> options.referencePorts # <<>>,
          notices  |-> <<>>]
    ELSE [returned |-> TRUE, value |-> FALSE, sent |-> <<>>, terminal |-> "",
          timer |-> FALSE,
          notices |-> << [kind |-> "error", text |-> "Failed to run container", ports |-> <<>>] >>]

(* ------------------------- listing inputs ------------------------------ *)
abc      == <<"a","b","c">>
xyz      == <<"x","y","z">>
web1     == <<"w","e","b","1">>
dash     == <<"-">>
linux    == <<"l","i","n","u","x">>
arm64    == <<"a","r","m","6","4">>
ip5      == <<"1","0",".","0",".","0",".","5">>
ip7      == <<"1","0",".","0",".","0",".","7">>
nginxRef == <<"n","g","i","n","x",":","l","a","t","e","s","t">>
redisRef == <<"R","e","d","i","s",":","7">>
stopped  == <<"s","t","o","p","p","e","d">>
Running  == <<"R","u","n","n","i","n","g">>

registryRef == <<"l","o","c","a","l","h","o","s","t",":","5","0","0","0","/",
                 "n","g","i","n","x",":","l","a","t","e","s","t">>

RECURSIVE Join(_, _)
Join(words, gap) ==
    IF words = <<>> THEN <<>>
    ELSE IF Len(words) = 1 THEN Head(words)
    ELSE Head(words) \o gap \o Join(Tail(words), gap)

HeaderLine ==
    Join(<< <<"I","D">>, <<"I","M","A","G","E">>, <<"O","S">>, <<"A","R","C","H">>,
            <<"S","T","A","T","E">>, <<"A","D","D","R">> >>, <<" ", " ">>)

\* Data lines the `container ls` table may hold
DataLines ==
    { Join(<<abc, dash, linux, arm64, dash, ip5>>, <<" ", " ">>),
      Join(<<abc, nginxRef, linux, arm64, running, NA>>, <<" ">>),
      Join(<<xyz, dash, linux, arm64, dash>>, <<" ">>),
      <<"\t">> \o Join(<<xyz, redisRef, linux, arm64, running, ip7, dash>>, <<" ", "\t">>)
             \o <<" ">>,
      Join(<<unknown, dash, linux, arm64, dash, ip7>>, <<" ">>),
      <<>>,
      <<" ", " ">> }

\* The text of a table: the header and the data lines, newline-separated
TableText(lines) == Join(<<HeaderLine>> \o lines, <<"\n">>)

SeqsUpTo(S, n) == UNION { [1..k -> S] : k \in 0..n }

TableOutputs ==
    { [ok |-> TRUE, lines |-> ls, stdout |-> TableText(ls)] :
        ls \in SeqsUpTo(DataLines, MaxLines) }

TableFailure == [ok |-> FALSE, lines |-> <<>>, stdout |-> <<>>]

RawEntry(id, hostname, reference, status) ==
    [isNull |-> FALSE, hasConfig |-> TRUE, id |-> id, hostname |-> hostname,
     reference |-> reference, status |-> status]

NoConfigEntry ==
    [isNull |-> FALSE, hasConfig |-> FALSE, id |-> Undefined, hostname |-> Undefined,
     reference |-> Undefined, status |-> Undefined]

NullEntry ==
    [isNull |-> TRUE, hasConfig |-> FALSE, id |-> Undefined, hostname |-> Undefined,
     reference |-> Undefined, status |-> Undefined]

\* Elements the parsed JSON array may hold
RawContainers ==
    { RawEntry(abc, web1, nginxRef, running),
      RawEntry(abc, Undefined, redisRef, stopped),
      RawEntry(xyz, web1, redisRef, Running),
      RawEntry(Undefined, web1, Undefined, running),
      NoConfigEntry,
      NullEntry }

JsonArrays ==
    { [kind |-> "array", entries |-> es] : es \in SeqsUpTo(RawContainers, MaxEntries) }

JsonFailures ==
    { [kind |-> k, entries |-> <<>>] : k \in {"cmdfail", "malformed", "notarray"} }

EmptyJson  == [kind |-> "array", entries |-> <<>>]
EmptyTable == [ok |-> TRUE, lines |-> <<>>, stdout |-> TableText(<<>>)]

ImageRefs ==
    { nginxRef,
      <<"n","g","i","n","x">>,
      registryRef,
      <<"h",":","5","/","n">>,
      <<"n",":","v","1","@","s",":","a","b">>,
      <<"n","@","s",":","a","b">>,
      EmptyStr,
      Undefined }

RawImages ==
    { [reference |-> r, digest |-> d, size |-> z] :
        r \in ImageRefs, d \in {<<"s",":","a","b">>}, z \in {0, 1536} }

ImageJsonArrays ==
    { [kind |-> "array", entries |-> es] : es \in SeqsUpTo(RawImages, MaxImages) }

NoResult == [value |-> <<>>, notice |-> FALSE, thrown |-> FALSE]

(* ----------------- the timer and the status bar ------------------------ *)
MaxClock  == 60
MaxPasses == 3

\* setInterval(..., 30000)
RefreshIntervalMs == 30000

RefreshIntervalSeconds == RefreshIntervalMs \div 1000

\* "Auto-refresh interval in seconds, 0 to disable (default: 30)"
DefaultAutoRefresh == 30

AutoRefreshSettings == {0, DefaultAutoRefresh, 2 * DefaultAutoRefresh}

NoStatusText == [text |-> "", by |-> 0]

InFlight(ps) == \E k \in 1..Len(ps) : ps[k].pc # "done"

\* A listContainers(all) call at its first await
NewPass(ps, origin, all) ==
    [origin |-> origin, pc |-> "listJson", busy |-> InFlight(ps), running |-> 0,
     cmds |-> << IF all THEN "container list --all --format json"
                 ELSE "container list --format json" >>]

\* An updateStatusBar that skips the listing while another is in flight
updateStatusBarUnlessBusy(ps, origin) ==
    IF InFlight(ps) THEN ps ELSE Append(ps, NewPass(ps, origin, FALSE))

\* updateStatusBar up to its await: listContainers() is called
updateStatusBar(ps, origin) == Append(ps, NewPass(ps, origin, FALSE))

\* `${runningContainers} running`
StatusText(n) == NumText(n) \o " running"

(* ------------------------ run-option inputs ---------------------------- *)
MaxItems == 2

ScalarOptions ==
    [detach : BOOLEAN, interactive : BOOLEAN, tty : BOOLEAN, remove : BOOLEAN,
     name : {"", "web"}, workdir : {"", "/app"}, user : {"", "root"},
     entrypoint : {"", "/bin/sh"}, cpus : {0, 2}, memory : {"", "1g"},
     network : {"", "mynet"}, command : {"", "sh"}]

NoScalars ==
    [detach |-> FALSE, interactive |-> FALSE, tty |-> FALSE, remove |-> FALSE,
     name |-> "", workdir |-> "", user |-> "", entrypoint |-> "", cpus |-> 0,
     memory |-> "", network |-> "", command |-> ""]

AllScalars ==
    [detach |-> TRUE, interactive |-> TRUE, tty |-> TRUE, remove |-> TRUE,
     name |-> "web", workdir |-> "/app", user |-> "root", entrypoint |-> "/bin/sh",
     cpus |-> 2, memory |-> "1g", network |-> "mynet", command |-> "sh"]

ReferencePorts == { <<>>, <<"80">>, <<"80", "443">> }

ListOptions ==
    [dns : SeqsUpTo({"1.1.1.1"}, MaxItems),
     volumes : SeqsUpTo({"/data:/data", "/tmp:/tmp"}, MaxItems),
     env : SeqsUpTo({"A=1", "B=2"}, MaxItems),
     labels : SeqsUpTo({"tier=web"}, MaxItems),
     ports : { <<>>, <<"8080:80">> },
     referencePorts : ReferencePorts]

NoLists ==
    [dns |-> <<>>, volumes |-> <<>>, env |-> <<>>, labels |-> <<>>, ports |-> <<>>,
     referencePorts |-> <<>>]

AllLists ==
    [dns |-> <<"1.1.1.1">>, volumes |-> <<"/tmp:/tmp", "/data:/data">>,
     env |-> <<"B=2", "A=1">>, labels |-> <<"tier=web">>, ports |-> <<"8080:80">>,
     referencePorts |-> <<"80", "443">>]

\* The options records handed to runContainerAdvanced
RunOptions ==
    { sc @@ ls : sc \in ScalarOptions, ls \in {NoLists, AllLists} }
        \cup { sc @@ ls : sc \in {NoScalars, AllScalars}, ls \in ListOptions }

RunImages == { "nginx:latest" }

NoRunInput == [image |-> "", options |-> NoScalars @@ NoLists, terminalOk |-> TRUE]

(* ----------------------- image-name inputs ----------------------------- *)
MaxWords == 2

\* Words an image name is made of: the fragments the heuristic knows, the
\* three web words, a word it does not know, and capitalised spellings
NameWords ==
    { <<"r","e","d","i","s">>,
      <<"p","o","s","t","g","r","e","s">>,
      <<"p","o","s","t","g","r","e","s","q","l">>,
      <<"m","y","s","q","l">>,
      <<"m","a","r","i","a","d","b">>,
      <<"m","o","n","g","o">>,
      <<"c","a","s","s","a","n","d","r","a">>,
      <<"n","g","i","n","x">>,
      <<"a","p","a","c","h","e">>,
      <<"h","t","t","p","d">>,
      <<"n","o","d","e">>,
      <<"e","x","p","r","e","s","s">>,
      <<"p","y","t","h","o","n">>,
      <<"f","l","a","s","k">>,
      <<"d","j","a","n","g","o">>,
      <<"j","a","v","a">>,
      <<"s","p","r","i","n","g">>,
      <<"t","o","m","c","a","t">>,
      <<"r","a","b","b","i","t","m","q">>,
      <<"k","a","f","k","a">>,
      <<"e","l","a","s","t","i","c","s","e","a","r","c","h">>,
      <<"j","e","n","k","i","n","s">>,
      <<"g","i","t","l","a","b">>,
      <<"w","e","b">>,
      <<"s","e","r","v","e","r">>,
      <<"a","p","i">>,
      <<"a","p","p">>,
      <<"R","e","d","i","s">>,
      <<"N","G","I","N","X">>,
      <<"A","p","i">> }

\* Image names of up to MaxWords words joined by "-"
ImageNames == { Join(ws, <<"-">>) : ws \in SeqsUpTo(NameWords, MaxWords) \ { <<>> } }

\* The container records whose details are asked for
ExampleContainers ==
    { [id |-> abc, name |-> web1, image |-> img, status |-> st, ports |-> EmptyStr,
       created |-> unknown, ipAddress |-> ip, os |-> Undefined, arch |-> Undefined] :
        img \in ImageNames, st \in {running, stopped}, ip \in {ip5} }
      \cup
    { [id |-> abc, name |-> web1, image |-> img, status |-> running, ports |-> EmptyStr,
       created |-> unknown, ipAddress |-> Undefined, os |-> Undefined, arch |-> Undefined] :
        img \in { <<"r","e","d","i","s">>, <<"a","p","p">> } }

NoContainer ==
    [id |-> EmptyStr, name |-> EmptyStr, image |-> EmptyStr, status |-> EmptyStr,
     ports |-> EmptyStr, created |-> unknown, ipAddress |-> Undefined, os |-> Undefined,
     arch |-> Undefined]

(* ------------------------------ state ---------------------------------- *)
VARIABLES
    jsonOutput,     \* outcome of `container list --format json` and JSON.parse
    tableOutput,    \* outcome of `container ls`
    lpc,            \* "start" | "listed": has listContainers returned
    listResult,     \* what listContainers returned
    selected,       \* index of the container item expanded in the tree, 0 if none
    details,        \* the detail rows of the expanded container item
    imageJson,      \* outcome of `container image list --format json`
    ipc,            \* "start" | "listed": has listImages returned
    imageResult,    \* what listImages returned
    tasks,          \* the handler invocations started so far, in start order
    panels,         \* the ContainerDetailsPanel objects created so far
    currentPanel,   \* ContainerDetailsPanel.currentPanel: an index of panels, 0 = undefined
    formPanel,      \* ContainerFormPanel.currentPanel is defined
    runInput,       \* the arguments of a runContainerAdvanced call
    rpc,            \* "start" | "returned" | "advised" | "answered"
    runResult,      \* what the call sent, returned and showed
    exContainer,    \* the container item expanded in the tree
    epc,            \* "start" | "expanded"
    exDetails,      \* the detail rows getChildren returned for it
    showAllContainers,  \* ContainerProvider.showAllContainers
    imageCmd,       \* the image operation last sent to the CLI: [op, arg]
    autoRefresh,    \* the value of the apple-container-helper.autoRefresh setting
    clock,          \* seconds since activate armed the timer
    ticks,          \* how many times the setInterval callback has run
    refreshCmds,    \* how many times the refreshContainers command has run
    treeChanged,    \* change events fired by refresh() and not yet served
    passes,         \* the listContainers calls started so far, in start order
    statusBar,      \* statusBarItem.text and the pass that wrote it
    platform,       \* os.platform()
    apc,            \* where activate is: "start" | "which" | "advisory" |
                    \* "systemStart" | "active" | "unsupported"
    activateCmds,   \* the commands activate has run, in order
    messages,       \* the messages activate and its callees have shown, in order
    registered      \* what activate has registered with the host

listingVars == <<jsonOutput, tableOutput, lpc, listResult, selected, details,
                 imageJson, ipc, imageResult, imageCmd>>

runVars == <<runInput, rpc, runResult>>

exVars == <<exContainer, epc, exDetails>>

\* Everything the command handlers of the extension leave alone
refreshVars == <<autoRefresh, clock, ticks, refreshCmds, treeChanged, passes, statusBar>>

activateVars == <<platform, apc, activateCmds, messages, registered>>

listVars == <<listingVars, runVars, exVars, showAllContainers, refreshVars, activateVars>>

uiVars == <<tasks, panels, currentPanel, formPanel>>

vars == <<listVars, uiVars>>

\* The extension right after activation: no handler running, no panel open
UIStart ==
    /\ tasks = <<>>
    /\ panels = <<>>
    /\ currentPanel = 0
    /\ formPanel = FALSE

\* No listing has been asked for
ListIdle ==
    /\ jsonOutput = EmptyJson
    /\ tableOutput = EmptyTable
    /\ imageJson = EmptyJson
    /\ lpc = "start"
    /\ listResult = NoResult
    /\ selected = 0
    /\ details = <<>>
    /\ ipc = "start"
    /\ imageResult = NoResult
    /\ imageCmd = NoImageCmd

\* runContainerAdvanced has not been called
RunIdle ==
    /\ runInput = NoRunInput
    /\ rpc = "start"
    /\ runResult = NoRun

\* No container item has been expanded; private showAllContainers = false
ExIdle ==
    /\ exContainer = NoContainer
    /\ epc = "start"
    /\ exDetails = <<>>
    /\ showAllContainers = FALSE

\* The timer and the status bar are left out of the other specifications
RefreshIdle ==
    /\ autoRefresh = DefaultAutoRefresh
    /\ clock = 0
    /\ ticks = 0
    /\ refreshCmds = 0
    /\ treeChanged = 0
    /\ passes = <<>>
    /\ statusBar = NoStatusText

\* What activate registers: the tree view, the status bar item, the
\* commands and the interval timer
Registrations == {"containerExplorer", "statusBarItem", "commands", "refreshInterval"}

\* activate has returned on macOS with the CLI installed and the system started
Activated ==
    /\ platform = "darwin"
    /\ apc = "active"
    /\ activateCmds = <<"which container", "container system start">>
    /\ messages = <<"Container system started successfully">>
    /\ registered = Registrations

(* ------------------- specification of the listings --------------------- *)
ListInit ==
    /\ \/ /\ jsonOutput \in JsonArrays
          /\ tableOutput \in TableOutputs \cup {TableFailure}
          /\ imageJson = EmptyJson
       \/ /\ jsonOutput \in JsonFailures
          /\ tableOutput = EmptyTable
          /\ imageJson = EmptyJson
       \/ /\ jsonOutput = EmptyJson
          /\ tableOutput = EmptyTable
          /\ imageJson \in ImageJsonArrays \cup JsonFailures
    /\ lpc = "start"
    /\ listResult = NoResult
    /\ selected = 0
    /\ details = <<>>
    /\ ipc = "start"
    /\ imageResult = NoResult
    /\ imageCmd = NoImageCmd
    /\ UIStart
    /\ RunIdle
    /\ ExIdle
    /\ RefreshIdle
    /\ Activated

\* ContainerProvider.getContainerItems -> ContainerManager.listContainers
ListContainers ==
    /\ lpc = "start"
    /\ lpc' = "listed"
    /\ listResult' = listContainers(jsonOutput, tableOutput)
    /\ UNCHANGED <<jsonOutput, tableOutput, selected, details, imageJson, ipc, imageResult>>
    /\ UNCHANGED imageCmd
    /\ UNCHANGED <<uiVars, runVars, exVars, showAllContainers, refreshVars, activateVars>>

\* ContainerProvider.getChildren(element) for a ContainerItem
GetChildren(i) ==
    /\ lpc = "listed"
    /\ i \in 1..Len(listResult.value)
    /\ selected' = i
    /\ details' = getContainerDetails(listResult.value[i])
    /\ UNCHANGED <<jsonOutput, tableOutput, lpc, listResult, imageJson, ipc, imageResult>>
    /\ UNCHANGED imageCmd
    /\ UNCHANGED <<uiVars, runVars, exVars, showAllContainers, refreshVars, activateVars>>

\* ContainerProvider.getImageItems -> ContainerManager.listImages
ListImages ==
    /\ ipc = "start"
    /\ ipc' = "listed"
    /\ imageResult' = listImages(imageJson)
    /\ UNCHANGED <<jsonOutput, tableOutput, lpc, listResult, selected, details, imageJson>>
    /\ UNCHANGED imageCmd
    /\ UNCHANGED <<uiVars, runVars, exVars, showAllContainers, refreshVars, activateVars>>

\* A command on the i-th image item of the tree, up to the command line that
\* reaches the CLI
ImageOperation(op, i, arg) ==
    /\ imageCmd' = [op |-> op, item |-> i, arg |-> arg]
    /\ UNCHANGED <<jsonOutput, tableOutput, lpc, listResult, selected, details,
                   imageJson, ipc, imageResult>>
    /\ UNCHANGED <<uiVars, runVars, exVars, showAllContainers, refreshVars, activateVars>>

\* removeImage, confirmed: `container image delete ${imageId}`
RemoveImage(i) ==
    /\ ipc = "listed" /\ i \in 1..Len(imageResult.value)
    /\ ImageOperation("image delete", i, removeImageArg(imageResult.value[i]))

\* inspectImage: `container image inspect ${imageReference}`
InspectImage(i) ==
    /\ ipc = "listed" /\ i \in 1..Len(imageResult.value)
    /\ ImageOperation("image inspect", i, inspectImageArg(imageResult.value[i]))

\* runFromImage, both prompts answered: `container run ... ${image}`
RunFromImage(i) ==
    /\ ipc = "listed" /\ i \in 1..Len(imageResult.value)
    /\ ImageOperation("run", i, runFromImageArg(imageResult.value[i]))

\* advancedRunFromImage, the form submitted as it was filled in
AdvancedRunFromImage(i) ==
    /\ ipc = "listed" /\ i \in 1..Len(imageResult.value)
    /\ ImageOperation("run (form)", i, advancedRunFromImageArg(imageResult.value[i]))

ListNext ==
    \/ ListContainers
    \/ \E i \in 1..MaxEntries + 1 : GetChildren(i)
    \/ ListImages
    \/ \E i \in 1..MaxImages + 1 :
          \/ RemoveImage(i) \/ InspectImage(i) \/ RunFromImage(i) \/ AdvancedRunFromImage(i)

SpecList == ListInit /\ [][ListNext]_vars

(* ------------- specification of the advanced-run builder --------------- *)
RunInit ==
    /\ runInput \in [image : RunImages, options : RunOptions, terminalOk : BOOLEAN]
    /\ rpc = "start"
    /\ runResult = NoRun
    /\ ListIdle
    /\ UIStart
    /\ ExIdle
    /\ RefreshIdle
    /\ Activated

\* ContainerManager.runContainerAdvanced(image, options)
RunContainerAdvanced ==
    /\ rpc = "start"
    /\ rpc' = "returned"
    /\ runResult' = runContainerAdvanced(runInput.image, runInput.options,
                                         runInput.terminalOk)
    /\ UNCHANGED <<runInput, listingVars, uiVars, exVars, showAllContainers, refreshVars, activateVars>>

\* The setTimeout callback, 2000 ms after the command was sent
ShowAdvisory ==
    /\ rpc = "returned"
    /\ runResult.timer
    /\ rpc' = "advised"
    /\ runResult' = [runResult EXCEPT
           !.timer = FALSE,
           !.notices = Append(@, [kind  |-> "information",
                                  text  |-> advisoryText(runInput.options),
                                  ports |-> runInput.options.referencePorts])]
    /\ UNCHANGED <<runInput, listingVars, uiVars, exVars, showAllContainers, refreshVars, activateVars>>

\* The user answers the information message: 'Show Container List' opens a
\* second terminal running `container ls`
AdvisoryAnswer(selection) ==
    /\ rpc = "advised"
    /\ rpc' = "answered"
    /\ runResult' = [runResult EXCEPT
           !.terminal = IF selection = "Show Container List"
                        THEN "Container List" ELSE @]
    /\ UNCHANGED <<runInput, listingVars, uiVars, exVars, showAllContainers, refreshVars, activateVars>>

RunNext ==
    \/ RunContainerAdvanced
    \/ ShowAdvisory
    \/ \E selection \in {"Show Container List", "dismissed"} : AdvisoryAnswer(selection)

SpecRun == RunInit /\ [][RunNext]_vars

(* ================= properties of the advanced-run builder ============== *)

\* The pieces of the command line that was sent to the terminal
SentCmd == runResult.sent
RunOpts == runInput.options

\* Flags by which a container CLI publishes ports or selects a network
PortOrNetworkFlags == {"--publish", "-p", "--publish-all", "-P", "--network", "--net"}

PortsOf(options) ==
    { options.ports[i] : i \in 1..Len(options.ports) }
        \cup { options.referencePorts[i] : i \in 1..Len(options.referencePorts) }

\* C11: whatever the run options, a supplied network and supplied ports
\* included, the command line sent to the terminal holds no port-publishing
\* flag and no network flag, and holds neither the network nor a port; the
\* ports appear only in the information message shown after the command was
\* sent.
C11_NoPortOrNetworkFlag ==
    /\ \A i \in 1..Len(SentCmd) :
          /\ SentCmd[i] \notin PortOrNetworkFlags
          /\ SentCmd[i] \notin PortsOf(RunOpts)
          /\ RunOpts.network # "" => SentCmd[i] # RunOpts.network
    /\ \A k \in 1..Len(runResult.notices) :
          runResult.notices[k].ports # <<>> =>
              /\ runResult.notices[k].kind = "information"
              /\ runResult.notices[k].ports = RunOpts.referencePorts
              /\ SentCmd # <<>>

C11_Witness ==
    /\ rpc = "advised"
    /\ RunOpts.network = "mynet"
    /\ RunOpts.ports = <<"8080:80">>
    /\ RunOpts.referencePorts = <<"80", "443">>
    /\ Len(runResult.notices) = 1
    /\ runResult.notices[1].ports = <<"80", "443">>
    /\ Len(SentCmd) > 2

BooleanFlags == {"--detach", "--interactive", "--tty", "--rm"}
SingleFlags  == {"--name", "--workdir", "--user", "--entrypoint", "--cpus", "--memory"}
MultiFlags   == {"--dns", "-v", "-e", "-l"}

\* The place of a flag in the order the claim gives
FlagRank(flag) ==
    CASE flag = "--detach" -> 1 [] flag = "--interactive" -> 2 [] flag = "--tty" -> 3
      [] flag = "--rm" -> 4 [] flag = "--name" -> 5 [] flag = "--workdir" -> 6
      [] flag = "--user" -> 7 [] flag = "--entrypoint" -> 8 [] flag = "--cpus" -> 9
      [] flag = "--memory" -> 10 [] flag = "--dns" -> 11 [] flag = "-v" -> 12
      [] flag = "-e" -> 13 [] flag = "-l" -> 14

\* The pieces that follow the occurrences of a flag, in order
ValuesOf(flag) ==
    LET idx == SelectSeq([i \in 1..Len(SentCmd) |-> i], LAMBDA i : SentCmd[i] = flag)
    IN  [k \in 1..Len(idx) |-> SentCmd[idx[k] + 1]]

OneIf(value, text) == IF value # "" THEN << text >> ELSE <<>>

\* C12: the command line is `container run`, then the runtime flags (detach,
\* interactive, tty, rm), the identity flags (name, workdir, user,
\* entrypoint), the resource flags (cpus, memory), the multi-value flags in
\* the order DNS, volumes, environment, labels with one flag per item in the
\* given order, then the image, then the command override if there is one.
C12_FixedFlagOrder ==
    (rpc # "start" /\ runResult.value) =>
        LET n     == Len(SentCmd)
            img   == IF RunOpts.command # "" THEN n - 1 ELSE n
            flags == {i \in 2..(img - 1) : SentCmd[i] \in BooleanFlags \cup SingleFlags
                                                           \cup MultiFlags}
        IN  /\ SentCmd[1] = "container run"
            /\ img >= 2
            /\ SentCmd[img] = runInput.image
            /\ RunOpts.command # "" => SentCmd[n] = RunOpts.command
            /\ \A i \in 2..(img - 1) :
                  i \in flags \/ (i - 1 \in flags /\ SentCmd[i - 1] \notin BooleanFlags)
            /\ \A i, j \in flags :
                  i < j => \/ FlagRank(SentCmd[i]) < FlagRank(SentCmd[j])
                           \/ /\ SentCmd[i] = SentCmd[j]
                              /\ SentCmd[i] \in MultiFlags
            /\ ("--detach" \in {SentCmd[i] : i \in flags}) = RunOpts.detach
            /\ ("--interactive" \in {SentCmd[i] : i \in flags}) = RunOpts.interactive
            /\ ("--tty" \in {SentCmd[i] : i \in flags}) = RunOpts.tty
            /\ ("--rm" \in {SentCmd[i] : i \in flags}) = RunOpts.remove
            /\ ValuesOf("--name") = OneIf(RunOpts.name, RunOpts.name)
            /\ ValuesOf("--workdir") = OneIf(RunOpts.workdir, "\"" \o RunOpts.workdir \o "\"")
            /\ ValuesOf("--user") = OneIf(RunOpts.user, RunOpts.user)
            /\ ValuesOf("--entrypoint")
                 = OneIf(RunOpts.entrypoint, "\"" \o RunOpts.entrypoint \o "\"")
            /\ ValuesOf("--cpus") = (IF RunOpts.cpus # 0 THEN << "2" >> ELSE <<>>)
            /\ ValuesOf("--memory") = OneIf(RunOpts.memory, RunOpts.memory)
            /\ ValuesOf("--dns") = RunOpts.dns
            /\ ValuesOf("-v") = RunOpts.volumes
            /\ ValuesOf("-e") = RunOpts.env
            /\ ValuesOf("-l") = RunOpts.labels

C12_Witness ==
    /\ rpc = "returned"
    /\ RunOpts.detach /\ RunOpts.remove /\ RunOpts.name = "web" /\ RunOpts.cpus = 2
    /\ RunOpts.volumes = <<"/tmp:/tmp", "/data:/data">>
    /\ RunOpts.env = <<"B=2", "A=1">>
    /\ RunOpts.command = "sh"
    /\ RunOpts.dns = <<"1.1.1.1">> /\ RunOpts.labels = <<"tier=web">>
    /\ Len(SentCmd) = 31

(* ------------- specification of the connection heuristic --------------- *)
ExInit ==
    /\ exContainer \in ExampleContainers
    /\ epc = "start"
    /\ exDetails = <<>>
    /\ showAllContainers = FALSE
    /\ ListIdle
    /\ UIStart
    /\ RunIdle
    /\ RefreshIdle
    /\ Activated

\* ContainerProvider.getChildren(element) -> getContainerDetails(element.container)
ExpandContainer ==
    /\ epc = "start"
    /\ epc' = "expanded"
    /\ exDetails' = getContainerDetails(exContainer)
    /\ UNCHANGED <<exContainer, showAllContainers, listingVars, uiVars, runVars, refreshVars, activateVars>>

ExNext == ExpandContainer

SpecExamples == ExInit /\ [][ExNext]_vars

(* ================ properties of the connection heuristic =============== *)

\* The rows that getConnectionExamples contributed: those between the
\* Status row and the Base URL row
ExampleRows ==
    LET at(label) == CHOOSE i \in 1..Len(exDetails) : exDetails[i].label = label
    IN  IF \E i \in 1..Len(exDetails) : exDetails[i].label = "Base URL"
        THEN SubSeq(exDetails, at("Status") + 1, at("Base URL") - 1)
        ELSE <<>>

ExamplesAsked ==
    /\ epc = "expanded"
    /\ Truthy(exContainer.ipAddress)
    /\ Includes(ToLowerCase(exContainer.status), running)

\* The groups of which the image name contains a fragment, whatever the case
MatchingGroups ==
    { g \in 1..Len(KnownGroups) : GroupMatches(g, ToLowerCase(exContainer.image)) }

FirstGroup == CHOOSE g \in MatchingGroups : \A h \in MatchingGroups : g <= h

\* C13: the groups are tried in the order redis, postgres, mysql/mariadb,
\* mongo, cassandra, nginx/apache/httpd, node/express, python/flask/django,
\* java/spring/tomcat, rabbitmq, kafka, elasticsearch, jenkins, gitlab,
\* whatever the case of the image name; a name with fragments of several
\* groups gets exactly one example, that of the earliest group.
C13_FirstMatchWins ==
    (ExamplesAsked /\ MatchingGroups # {}) =>
        /\ Len(ExampleRows) = 1
        /\ ExampleRows[1].label = KnownGroups[FirstGroup].label
        /\ ExampleRows[1].val = exContainer.ipAddress

\* nginx-redis: the Redis CLI example only
C13_Witness ==
    /\ ExamplesAsked
    /\ exContainer.image = <<"n","g","i","n","x","-","r","e","d","i","s">>
    /\ Len(ExampleRows) = 1
    /\ ExampleRows[1].label = "Redis CLI"

WebWords == { <<"w","e","b">>, <<"s","e","r","v","e","r">>, <<"a","p","i">> }

LooksLikeWeb == \E w \in WebWords : Includes(ToLowerCase(exContainer.image), w)

RowLabels == { ExampleRows[i].label : i \in 1..Len(ExampleRows) }

\* C14: a name that holds no known fragment gets the common-ports suggestion
\* (80, 8080, 3000, 5000), preceded by the web suggestion exactly when the
\* name holds "web", "server" or "api"; a name that holds a known fragment
\* gets neither.
C14_FallbackOnlyWhenNoMatch ==
    ExamplesAsked =>
        IF MatchingGroups = {}
        THEN /\ ExampleRows[Len(ExampleRows)].label = "Common Ports"
             /\ ExampleRows[Len(ExampleRows)].post = ":PORT (80, 8080, 3000, 5000)"
             /\ Len(ExampleRows) = (IF LooksLikeWeb THEN 2 ELSE 1)
             /\ LooksLikeWeb => ExampleRows[1].label = "Default Web Port"
        ELSE RowLabels \cap {"Common Ports", "Default Web Port"} = {}

\* Api-app: both suggestions; the witness of the other side is C13's
C14_Witness ==
    /\ ExamplesAsked
    /\ exContainer.image = <<"A","p","i","-","a","p","p">>
    /\ Len(ExampleRows) = 2
    /\ ExampleRows[1].label = "Default Web Port"
    /\ ExampleRows[2].label = "Common Ports"

(* ------------- specification of the periodic refresh ------------------ *)

\* The extension when activate has returned: updateStatusBar() was called
\* once and the interval timer is armed
RefreshInit ==
    /\ autoRefresh \in AutoRefreshSettings
    /\ clock = 0
    /\ ticks = 0
    /\ refreshCmds = 0
    /\ treeChanged = 0
    /\ passes = updateStatusBar(<<>>, "activate")
    /\ statusBar = NoStatusText
    /\ showAllContainers = FALSE
    /\ exContainer = NoContainer /\ epc = "start" /\ exDetails = <<>>
    /\ ListIdle
    /\ UIStart
    /\ RunIdle
    /\ Activated

RefreshFrame == UNCHANGED <<autoRefresh, listingVars, uiVars, runVars, exVars, activateVars>>

\* The interval has elapsed since the last callback
TimerDue == ticks < clock \div RefreshIntervalSeconds

\* Time passes until the timer is due again
AdvanceTime ==
    /\ "refreshInterval" \in registered
    /\ ~TimerDue
    /\ clock + RefreshIntervalSeconds <= MaxClock
    /\ clock' = clock + RefreshIntervalSeconds
    /\ RefreshFrame
    /\ UNCHANGED <<ticks, refreshCmds, treeChanged, passes, statusBar, showAllContainers>>

\* The setInterval callback: containerProvider.refresh(); updateStatusBar()
timerTick ==
    /\ "refreshInterval" \in registered
    /\ TimerDue
    /\ Len(passes) < MaxPasses
    /\ ticks' = ticks + 1
    /\ treeChanged' = treeChanged + 1
    /\ passes' = updateStatusBar(passes, "timer")
    /\ RefreshFrame
    /\ UNCHANGED <<clock, refreshCmds, statusBar, showAllContainers>>

\* The refreshContainers command: containerProvider.refresh(); updateStatusBar()
refreshContainers ==
    /\ "commands" \in registered
    /\ Len(passes) < MaxPasses
    /\ refreshCmds' = refreshCmds + 1
    /\ treeChanged' = treeChanged + 1
    /\ passes' = updateStatusBar(passes, "refreshContainers")
    /\ RefreshFrame
    /\ UNCHANGED <<clock, ticks, statusBar, showAllContainers>>

\* The host answers the change events fired so far by asking for the
\* containers section again: getContainerItems -> listContainers(showAllContainers)
getContainerItems ==
    /\ "containerExplorer" \in registered
    /\ treeChanged > 0
    /\ Len(passes) < MaxPasses
    /\ treeChanged' = 0
    /\ passes' = Append(passes, NewPass(passes, "tree", showAllContainers))
    /\ RefreshFrame
    /\ UNCHANGED <<clock, ticks, refreshCmds, statusBar, showAllContainers>>

PassAt(k, pc) == k \in 1..Len(passes) /\ passes[k].pc = pc

\* The text of updateStatusBar's catch block
StatusUnavailable == "Container CLI unavailable"

\* What a finished listing does for its caller: updateStatusBar writes the
\* count of running containers, or the text of its catch block when
\* listContainers threw; the tree shows the items
PassDone(k, thrown, n) ==
    /\ passes' = [passes EXCEPT ![k].pc = "done", ![k].running = n]
    /\ statusBar' = IF passes[k].origin = "tree" THEN statusBar
                    ELSE [text |-> IF thrown THEN StatusUnavailable ELSE StatusText(n),
                          by |-> k]

\* The JSON command of pass k returns: on failure listContainers shows the
\* error and returns [], otherwise it issues the table command
passJsonReturns(k, ok) ==
    /\ PassAt(k, "listJson")
    /\ IF ok
       THEN /\ passes' = [passes EXCEPT
                              ![k].pc = "listTable",
                              ![k].cmds = Append(@, IF passes[k].cmds[1]
                                                       = "container list --all --format json"
                                                    THEN "container ls --all"
                                                    ELSE "container ls")]
            /\ UNCHANGED statusBar
       ELSE PassDone(k, listContainersCatch.thrown, Len(listContainersCatch.value))
    /\ RefreshFrame
    /\ UNCHANGED <<clock, ticks, refreshCmds, treeChanged, showAllContainers>>

\* The table command of pass k returns; n containers are running
passTableReturns(k, ok, n) ==
    /\ PassAt(k, "listTable")
    /\ IF ok THEN PassDone(k, FALSE, n)
       ELSE PassDone(k, listContainersCatch.thrown, Len(listContainersCatch.value))
    /\ RefreshFrame
    /\ UNCHANGED <<clock, ticks, refreshCmds, treeChanged, showAllContainers>>

PassReturns ==
    \E k \in 1..MaxPasses + 1, ok \in BOOLEAN :
        \/ passJsonReturns(k, ok)
        \/ \E n \in 0..1 : passTableReturns(k, ok, n)

RefreshNext ==
    \/ AdvanceTime
    \/ timerTick
    \/ refreshContainers
    \/ getContainerItems
    \/ PassReturns

SpecRefresh == RefreshInit /\ [][RefreshNext]_vars

\* Every CLI command that was started returns: the child process ends
SpecRefreshFair ==
    /\ SpecRefresh
    /\ \A k \in 1..MaxPasses + 1 :
          WF_vars(\E ok \in BOOLEAN :
                     \/ passJsonReturns(k, ok)
                     \/ \E n \in 0..1 : passTableReturns(k, ok, n))

(* ------------------- specification of activation ---------------------- *)

Platforms == {"darwin", "linux", "win32"}

\* The selections of the advisory: a button, or undefined when it is closed
AdvisoryActions == {"Learn More", "Dismiss", Undefined}

\* The extension host is about to call activate
ActivateInit ==
    /\ platform \in Platforms
    /\ apc = "start"
    /\ activateCmds = <<>>
    /\ messages = <<>>
    /\ registered = {}
    /\ RefreshIdle
    /\ ExIdle
    /\ ListIdle
    /\ UIStart
    /\ RunIdle

ActivateFrame == UNCHANGED <<platform, listingVars, uiVars, runVars, exVars,
                            showAllContainers, refreshVars>>

\* An activate that runs on every platform
activateAnyPlatform ==
    /\ apc = "start"
    /\ activateCmds' = Append(activateCmds, "which container")
    /\ apc' = "which"
    /\ UNCHANGED <<messages, registered>>
    /\ ActivateFrame

\* activate up to its first await: the test of os.platform(), then
\* checkContainerCliInstallation -> isContainerCliAvailable runs `which container`
activate ==
    /\ apc = "start"
    /\ IF platform # "darwin"
       THEN /\ messages' = Append(messages,
                                  "Apple Container Helper is only supported on macOS")
            /\ apc' = "unsupported"
            /\ UNCHANGED activateCmds
       ELSE /\ activateCmds' = Append(activateCmds, "which container")
            /\ apc' = "which"
            /\ UNCHANGED messages
    /\ UNCHANGED registered
    /\ ActivateFrame

\* startContainerSystem up to its await
startContainerSystem(cmds) == Append(cmds, "container system start")

\* A missing CLI ends activation after the advisory was shown
isContainerCliAvailableFatal(isAvailable) ==
    /\ apc = "which"
    /\ IF isAvailable
       THEN /\ activateCmds' = startContainerSystem(activateCmds)
            /\ apc' = "systemStart"
            /\ UNCHANGED messages
       ELSE /\ messages' = Append(messages, "Apple Container CLI is not installed")
            /\ apc' = "unsupported"
            /\ UNCHANGED activateCmds
    /\ UNCHANGED registered
    /\ ActivateFrame

\* `which container` returns: when the CLI is there activate goes on to
\* startContainerSystem, otherwise checkContainerCliInstallation shows the
\* advisory and awaits the selection
isContainerCliAvailable(isAvailable) ==
    /\ apc = "which"
    /\ IF isAvailable
       THEN /\ activateCmds' = startContainerSystem(activateCmds)
            /\ apc' = "systemStart"
            /\ UNCHANGED messages
       ELSE /\ messages' = Append(messages, "Apple Container CLI is not installed")
            /\ apc' = "advisory"
            /\ UNCHANGED activateCmds
    /\ UNCHANGED registered
    /\ ActivateFrame

\* The advisory is answered or closed: 'Learn More' opens the documentation;
\* activate goes on to startContainerSystem
checkContainerCliInstallation(action) ==
    /\ apc = "advisory"
    /\ messages' = IF action = "Learn More"
                   THEN Append(messages,
                               "https://developer.apple.com/documentation/virtualization")
                   ELSE messages
    /\ activateCmds' = startContainerSystem(activateCmds)
    /\ apc' = "systemStart"
    /\ UNCHANGED registered
    /\ ActivateFrame

\* `container system start` returns; startContainerSystem shows the outcome
\* and the rest of activate runs in the same turn: the tree provider, the
\* status bar item with the first updateStatusBar(), the commands, the timer
activateRegister(ok) ==
    /\ apc = "systemStart"
    /\ messages' = Append(messages, IF ok THEN "Container system started successfully"
                                    ELSE "Failed to start container system")
    /\ registered' = Registrations
    /\ passes' = updateStatusBar(passes, "activate")
    /\ apc' = "active"
    /\ UNCHANGED <<platform, activateCmds, listingVars, uiVars, runVars, exVars,
                   showAllContainers, autoRefresh, clock, ticks, refreshCmds,
                   treeChanged, statusBar>>

ActivateNext ==
    \/ activate
    \/ \E isAvailable \in BOOLEAN : isContainerCliAvailable(isAvailable)
    \/ \E action \in AdvisoryActions : checkContainerCliInstallation(action)
    \/ \E ok \in BOOLEAN : activateRegister(ok)
    \/ AdvanceTime
    \/ timerTick
    \/ refreshContainers
    \/ getContainerItems
    \/ PassReturns

SpecActivate == ActivateInit /\ [][ActivateNext]_vars

(* ===================== properties of the listings ====================== *)

\* The number of whitespace-separated tokens of a line
TokenCount(line) ==
    Cardinality({i \in 1..Len(line) : ~IsWS(line[i]) /\ (i = 1 \/ IsWS(line[i - 1]))})

\* The k-th token of a line
Token(line, k) == SplitWS(Trim(line))[k]

RemoveAt(seq, k) == SubSeq(seq, 1, k - 1) \o SubSeq(seq, k + 1, Len(seq))

\* Both commands succeeded and the JSON is an array of objects
Succeeded ==
    /\ jsonOutput.kind = "array"
    /\ \A i \in 1..Len(jsonOutput.entries) : ~jsonOutput.entries[i].isNull
    /\ tableOutput.ok

Listed == lpc = "listed" /\ Succeeded

JsonHasId(e) == e.hasConfig /\ Truthy(e.id)

Records == listResult.value
Entries == jsonOutput.entries
Lines   == tableOutput.lines

\* C1: listContainers returns exactly one record per JSON entry, in the JSON
\* listing's order, the i-th record built from the i-th entry, whether or not
\* the entry's id occurs in the table; an id only in the table gives no record.
C1_OneRecordPerJsonEntry ==
    Listed =>
        /\ Len(Records) = Len(Entries)
        /\ \A i \in 1..Len(Records) :
              /\ Records[i].id = IF JsonHasId(Entries[i]) THEN Entries[i].id ELSE unknown
              /\ Records[i].status = OrElse(Entries[i].status, unknown)
              /\ Records[i].image =
                    IF Entries[i].hasConfig THEN OrElse(Entries[i].reference, unknown)
                    ELSE unknown

C1_Witness ==
    /\ Listed
    /\ Len(Records) = 2
    /\ Records[1].id = xyz /\ Records[1].ipAddress = Undefined
    /\ Records[2].id = abc /\ Records[2].ipAddress = ip5
    /\ \E k \in 1..Len(Lines) : TokenCount(Lines[k]) >= 6 /\ Token(Lines[k], 1) = unknown

\* C4: when listing fails (a command fails, the JSON is malformed or is not an
\* array of objects) listContainers returns the empty list and shows an error
\* notice; it never throws.
C4_FailureYieldsEmptyAndNotice ==
    /\ lpc = "listed" => ~listResult.thrown
    /\ (lpc = "listed" /\ ~Succeeded) =>
          /\ listResult.value = <<>>
          /\ listResult.notice

C4_Witness ==
    /\ lpc = "listed"
    /\ ~tableOutput.ok
    /\ Len(Entries) = 2
    /\ listResult.notice /\ listResult.value = <<>>

\* C5: a table line of fewer than 6 tokens contributes no entry to the parsed
\* table and no IP/OS/arch value to any record: the parsed table and the
\* records are those of the listing without that line.
C5_ShortLinesContributeNothing ==
    tableOutput.ok =>
        \A k \in 1..Len(Lines) :
            TokenCount(Lines[k]) < 6 =>
                LET without == TableText(RemoveAt(Lines, k))
                IN  /\ parseContainerTable(tableOutput.stdout) = parseContainerTable(without)
                    /\ Listed =>
                          Records = listContainers(jsonOutput,
                                        [tableOutput EXCEPT !.stdout = without]).value

C5_Witness ==
    /\ Listed
    /\ \E k \in 1..Len(Lines), i \in 1..Len(Records) :
          /\ TokenCount(Lines[k]) = 5
          /\ Token(Lines[k], 1) = Records[i].id
          /\ Records[i].ipAddress = Undefined
          /\ Records[i].os = Undefined
          /\ Len(parseContainerTable(tableOutput.stdout)) = Len(Lines) - 1

\* A line the parser accepts whose IP token is "N/A"
IsNaLine(line) == TokenCount(line) >= 6 /\ Token(line, 6) = NA

\* Line k is the first accepted line with its id
FirstWithItsId(k) ==
    \A j \in 1..(k - 1) :
        TokenCount(Lines[j]) >= 6 => Token(Lines[j], 1) # Token(Lines[k], 1)

\* C6 as stated: for every table line whose IP token is "N/A" the record of
\* that id has no IP, and no record has the IP "N/A".
C6_Original ==
    Listed =>
        /\ \A k \in 1..Len(Lines), i \in 1..Len(Records) :
              (IsNaLine(Lines[k]) /\ Records[i].id = Token(Lines[k], 1))
                  => Records[i].ipAddress = Undefined
        /\ \A i \in 1..Len(Records) : Records[i].ipAddress # NA

\* C6 (amended): for every table line whose IP token is "N/A" and which is the
\* first line of at least 6 tokens with its id, the record of that id has no
\* IP; no record ever has the IP "N/A".
C6_NaIsAbsent ==
    Listed =>
        /\ \A k \in 1..Len(Lines), i \in 1..Len(Records) :
              (IsNaLine(Lines[k]) /\ FirstWithItsId(k)
                  /\ Records[i].id = Token(Lines[k], 1))
                  => Records[i].ipAddress = Undefined
        /\ \A i \in 1..Len(Records) : Records[i].ipAddress # NA

C6_Witness ==
    /\ Listed
    /\ \E k \in 1..Len(Lines), i \in 1..Len(Records) :
          /\ IsNaLine(Lines[k]) /\ FirstWithItsId(k)
          /\ Records[i].id = Token(Lines[k], 1)
          /\ Records[i].ipAddress = Undefined
          /\ Records[i].os = linux

\* No line of the table starts with this id
NoTableRow(id) == \A k \in 1..Len(Lines) : Token(Lines[k], 1) # id

NetworkRow(row) ==
    \/ row.label \in {"IP Address", "Platform", "Base URL", "SSH Access"}
    \/ row.type \in {"copy-ip", "platform", "copy-url", "copy-command"}

\* C7: a JSON-listed id with no table row of the same id gives a record with
\* IP, OS and arch absent, and its tree detail rows hold no IP Address row, no
\* Platform row and no connection-example rows.
C7_NoTableRowNoNetworkRows ==
    Listed =>
        \A i \in 1..Len(Records) :
            NoTableRow(Records[i].id) =>
                /\ Records[i].ipAddress = Undefined
                /\ Records[i].os = Undefined
                /\ Records[i].arch = Undefined
                /\ selected = i =>
                      \A r \in 1..Len(details) : ~NetworkRow(details[r])

C7_Witness ==
    /\ Listed
    /\ selected > 0
    /\ NoTableRow(Records[selected].id)
    /\ Records[selected].status = running
    /\ Len(parseContainerTable(tableOutput.stdout)) > 0
    /\ Len(details) = 4

\* The rows getContainerDetails adds for a reachable container: the
\* heuristic examples, Base URL and SSH Access
ConnectionRow(row) == row.type \in {"copy-url", "copy-command"}

ConnectionRows == SelectSeq(details, ConnectionRow)

\* The status holds "running" in any spelling
SaysRunning(status) ==
    \E k \in 1..Len(status) - 6 :
        \A j \in 1..7 :
            \/ status[k + j - 1] = running[j]
            \/ status[k + j - 1] = <<"R","U","N","N","I","N","G">>[j]

\* C23: the detail rows of a container hold connection-example rows (the
\* heuristic examples, then Base URL and SSH Access) exactly when the record
\* has an IP address and its status contains "running" in any letter case.
C23_ExamplesIffIpAndRunning ==
    (Listed /\ selected > 0) =>
        LET c == Records[selected]
            n == Len(ConnectionRows)
        IN  IF Truthy(c.ipAddress) /\ SaysRunning(c.status)
            THEN /\ n >= 2
                 /\ ConnectionRows[n - 1].label = "Base URL"
                 /\ ConnectionRows[n - 1].val = c.ipAddress
                 /\ ConnectionRows[n].label = "SSH Access"
                 /\ \A r \in 1..n - 2 : ConnectionRows[r].val = c.ipAddress
            ELSE n = 0

\* A container whose status is spelled "Running" and which has an IP shows
\* an example, Base URL and SSH Access, while the listing also has a stopped
\* container with an IP
C23_Witness ==
    /\ Listed
    /\ selected > 0
    /\ Records[selected].status = Running
    /\ Records[selected].ipAddress = ip7
    /\ Len(ConnectionRows) = 3
    /\ \E i \in 1..Len(Records) :
          Records[i].status = stopped /\ Records[i].ipAddress = ip5

\* C30: a record of listContainers whose creation time is the placeholder
\* "unknown" gets no Created row among its detail rows.
C30_NoCreatedRowWhenUnknown ==
    (lpc = "listed" /\ selected > 0 /\ Records[selected].created = unknown) =>
        \A r \in 1..Len(details) : details[r].label # "Created"

\* C8 as stated: no two records of one result have the same id, for every
\* JSON listing.
C8_Original ==
    lpc = "listed" =>
        \A i, j \in 1..Len(Records) : i # j => Records[i].id # Records[j].id

\* C8 (amended): when every JSON entry has an id and no two entries have the
\* same id, the result holds one record per entry and no two records have the
\* same id.
C8_DistinctIdsGiveDistinctRecords ==
    (/\ Listed
     /\ \A i \in 1..Len(Entries) : JsonHasId(Entries[i])
     /\ \A i, j \in 1..Len(Entries) : i # j => Entries[i].id # Entries[j].id)
    => /\ Len(Records) = Len(Entries)
       /\ \A i, j \in 1..Len(Records) : i # j => Records[i].id # Records[j].id

C8_Witness ==
    /\ Listed
    /\ Len(Records) = 2
    /\ Records[1].id = abc /\ Records[2].id = xyz
    /\ Records[1].name = Records[2].name

\* C9 as stated: every record's id is the id of the JSON entry it came from,
\* never absent and never a placeholder.
C9_Original ==
    Listed =>
        \A i \in 1..Len(Records) :
            /\ Records[i].id = IF Entries[i].hasConfig THEN Entries[i].id ELSE Undefined
            /\ Truthy(Records[i].id)
            /\ Records[i].id # unknown

\* C9 (amended): every record's id is present (a non-empty string): the id of
\* the JSON entry it came from when that entry has a non-empty id, and the
\* placeholder "unknown" otherwise.
C9_IdPresentOrUnknown ==
    Listed =>
        \A i \in 1..Len(Records) :
            /\ Truthy(Records[i].id)
            /\ JsonHasId(Entries[i]) => Records[i].id = Entries[i].id
            /\ ~JsonHasId(Entries[i]) => Records[i].id = unknown

C9_Witness ==
    /\ Listed
    /\ Len(Records) = 2
    /\ JsonHasId(Entries[1]) /\ Records[1].id = Entries[1].id
    /\ Entries[2].hasConfig /\ ~JsonHasId(Entries[2]) /\ Records[2].id = unknown

(* ------------------------ a worked listing ----------------------------- *)

\* The JSON payload
\* [{"configuration":{"id":"abc","hostname":"web1","image":{"reference":"nginx:latest"}},
\*   "status":"running"}]
ScenarioJson == [kind |-> "array", entries |-> << RawEntry(abc, web1, nginxRef, running) >>]

\* The table data line `abc  -  linux  arm64  -  10.0.0.5`
ScenarioLine ==
    <<"a","b","c"," "," ","-"," "," ","l","i","n","u","x"," "," ","a","r","m","6","4",
      " "," ","-"," "," ","1","0",".","0",".","0",".","5">>

ScenarioListed ==
    /\ lpc = "listed"
    /\ jsonOutput = ScenarioJson
    /\ tableOutput.ok
    /\ tableOutput.lines = << ScenarioLine >>

\* C19: that payload together with a table whose data line is that line
\* yields exactly one record: id abc, name web1, image nginx:latest, status
\* running, ip 10.0.0.5, os linux, arch arm64.
C19_WorkedListing ==
    ScenarioListed =>
        /\ ~listResult.notice
        /\ Len(Records) = 1
        /\ Records[1].id = <<"a","b","c">>
        /\ Records[1].name = <<"w","e","b","1">>
        /\ Records[1].image = <<"n","g","i","n","x",":","l","a","t","e","s","t">>
        /\ Records[1].status = <<"r","u","n","n","i","n","g">>
        /\ Records[1].ipAddress = <<"1","0",".","0",".","0",".","5">>
        /\ Records[1].os = <<"l","i","n","u","x">>
        /\ Records[1].arch = <<"a","r","m","6","4">>

C19_Witness == ScenarioListed /\ Len(Records) = 1 /\ Records[1].ipAddress = ip5

(* ------------------------ image references ----------------------------- *)

\* The reference without its @digest suffix
StripDigest(ref) ==
    LET P == {i \in 1..Len(ref) : ref[i] = "@"}
    IN  IF P = {} THEN ref ELSE SubSeq(ref, 1, Kth(P, 1) - 1)

\* The position of the last colon, 0 if there is none
LastColon(s) ==
    LET P == {i \in 1..Len(s) : s[i] = ":"}
    IN  IF P = {} THEN 0 ELSE Kth(P, Cardinality(P))

\* A reference has a tag when its last colon comes after its last slash
HasTag(s) ==
    /\ LastColon(s) > 0
    /\ \A i \in (LastColon(s) + 1)..Len(s) : s[i] # "/"

ExpectedRepository(s) == IF HasTag(s) THEN SubSeq(s, 1, LastColon(s) - 1) ELSE s

ExpectedTag(s) == IF HasTag(s) THEN SubSeq(s, LastColon(s) + 1, Len(s)) ELSE latest

\* C10: after stripping an @digest suffix, repository is the prefix before the
\* last colon and tag the text after it; a reference with no tag (also one
\* with a registry port) has the tag "latest".
C10_SplitAtLastColon ==
    (ipc = "listed" /\ imageJson.kind = "array") =>
        \A i \in 1..Len(imageResult.value) :
            LET s == StripDigest(imageResult.value[i].reference)
            IN  /\ imageResult.value[i].repository = OrElse(ExpectedRepository(s), unknown)
                /\ imageResult.value[i].tag = OrElse(ExpectedTag(s), latest)

(* ========================= action dispatcher =========================== *)
MaxPanels == 2      \* ContainerDetailsPanel objects created in one behaviour

Containers == {"c1", "c2"}
Images     == {"img1"}

Cmd(c, a) == [cmd |-> c, arg |-> a]

\* One invocation of a command handler or webview message handler.
\*   panel     : the ContainerDetailsPanel object `this` of the handler, 0 if none
\*   named     : the container named in the confirmation prompt
\*   pc        : what the handler awaits: "confirm" (showWarningMessage),
\*               "input" (showInputBox), "exec" (execAsync), "listJson",
\*               "listTable", "inspect" (the awaits of _refreshContainer), "done"
\*   cmds      : the CLI command lines the handler has issued, in order
\*   refreshed : containerProvider.refresh() was called by the handler
\*   statusBar : updateStatusBar() was called by the handler
\*   notice    : the handler, or a ContainerManager method it called, showed an
\*               information or error message (or scheduled one)
Task(kind, panel, target, pc, cmds) ==
    [kind |-> kind, panel |-> panel, target |-> target, named |-> target, pc |-> pc,
     answer |-> "none", inputs |-> <<>>, cmds |-> cmds,
     refreshed |-> FALSE, statusBar |-> FALSE, notice |-> FALSE]

StartTask(t) ==
    /\ Len(tasks) < MaxTasks
    /\ tasks' = Append(tasks, t)

At(t, kind, pc) ==
    /\ t \in 1..Len(tasks)
    /\ tasks[t].kind = kind
    /\ tasks[t].pc = pc

\* if (confirm !== 'No'): a dismissed prompt would go ahead
ConfirmedUnlessNo(answer) == answer # "No"

\* if (confirm === 'Yes')
Confirmed(answer) == answer = "Yes"

Answers == {"Yes", "No", "dismissed"}

\* The continuation of a handler awaiting showWarningMessage: on 'Yes' it
\* issues cmd and awaits it, otherwise it returns
AnswerConfirm(t, answer, cmd) ==
    tasks' = [tasks EXCEPT ![t] =
                 IF Confirmed(answer)
                 THEN [@ EXCEPT !.answer = answer, !.pc = "exec",
                                !.cmds = Append(@, cmd)]
                 ELSE [@ EXCEPT !.answer = answer, !.pc = "done"]]

\* The handler's last statements: containerProvider.refresh() and/or
\* updateStatusBar(), then return
Finish(t, refresh, status) ==
    tasks' = [tasks EXCEPT ![t] =
                 [@ EXCEPT !.pc = "done", !.refreshed = refresh, !.statusBar = status]]

\* The same when the ContainerManager method that was awaited showed a message
FinishNotified(t, refresh, status) ==
    tasks' = [tasks EXCEPT ![t] =
                 [@ EXCEPT !.pc = "done", !.refreshed = refresh, !.statusBar = status,
                           !.notice = TRUE]]

(* ----------------- commands registered by activate --------------------- *)

startContainer(c) ==
    /\ c \in Containers
    /\ StartTask(Task("startContainer", 0, c, "exec", <<Cmd("start", c)>>))
    /\ UNCHANGED <<panels, currentPanel, formPanel, listVars>>

\* A continuation that runs the command again when it failed
startContainerResumeRetry(t, ok) ==
    /\ At(t, "startContainer", "exec")
    /\ IF ok
       THEN FinishNotified(t, TRUE, TRUE)
       ELSE tasks' = [tasks EXCEPT ![t].cmds = Append(@, Cmd("start", tasks[t].target)),
                                   ![t].notice = TRUE]
    /\ UNCHANGED <<panels, currentPanel, formPanel, listVars>>

startContainerResume(t, ok) ==
    /\ At(t, "startContainer", "exec")
    /\ FinishNotified(t, TRUE, TRUE)
    /\ UNCHANGED <<panels, currentPanel, formPanel, listVars>>

stopContainer(c) ==
    /\ c \in Containers
    /\ StartTask(Task("stopContainer", 0, c, "exec", <<Cmd("stop", c)>>))
    /\ UNCHANGED <<panels, currentPanel, formPanel, listVars>>

stopContainerResume(t, ok) ==
    /\ At(t, "stopContainer", "exec")
    /\ FinishNotified(t, TRUE, TRUE)
    /\ UNCHANGED <<panels, currentPanel, formPanel, listVars>>

removeContainer(c) ==
    /\ c \in Containers
    /\ StartTask(Task("removeContainer", 0, c, "confirm", <<>>))
    /\ UNCHANGED <<panels, currentPanel, formPanel, listVars>>

removeContainerConfirm(t, answer) ==
    /\ At(t, "removeContainer", "confirm")
    /\ AnswerConfirm(t, answer, Cmd("delete", tasks[t].target))
    /\ UNCHANGED <<panels, currentPanel, formPanel, listVars>>

removeContainerResume(t, ok) ==
    /\ At(t, "removeContainer", "exec")
    /\ FinishNotified(t, TRUE, TRUE)
    /\ UNCHANGED <<panels, currentPanel, formPanel, listVars>>

forceRemoveContainer(c) ==
    /\ c \in Containers
    /\ StartTask(Task("forceRemoveContainer", 0, c, "confirm", <<>>))
    /\ UNCHANGED <<panels, currentPanel, formPanel, listVars>>

forceRemoveContainerConfirm(t, answer) ==
    /\ At(t, "forceRemoveContainer", "confirm")
    /\ AnswerConfirm(t, answer, Cmd("delete --force", tasks[t].target))
    /\ UNCHANGED <<panels, currentPanel, formPanel, listVars>>

forceRemoveContainerResume(t, ok) ==
    /\ At(t, "forceRemoveContainer", "exec")
    /\ FinishNotified(t, TRUE, TRUE)
    /\ UNCHANGED <<panels, currentPanel, formPanel, listVars>>

removeImage(i) ==
    /\ i \in Images
    /\ StartTask(Task("removeImage", 0, i, "confirm", <<>>))
    /\ UNCHANGED <<panels, currentPanel, formPanel, listVars>>

removeImageConfirm(t, answer) ==
    /\ At(t, "removeImage", "confirm")
    /\ AnswerConfirm(t, answer, Cmd("image delete", tasks[t].target))
    /\ UNCHANGED <<panels, currentPanel, formPanel, listVars>>

removeImageResume(t, ok) ==
    /\ At(t, "removeImage", "exec")
    /\ FinishNotified(t, TRUE, FALSE)
    /\ UNCHANGED <<panels, currentPanel, formPanel, listVars>>

\* The pruneImages command with ContainerManager.pruneImages, which prompts
pruneImages ==
    /\ StartTask(Task("pruneImages", 0, "", "confirm", <<>>))
    /\ UNCHANGED <<panels, currentPanel, formPanel, listVars>>

pruneImagesConfirm(t, answer) ==
    /\ At(t, "pruneImages", "confirm")
    /\ AnswerConfirm(t, answer, Cmd("image prune --force", ""))
    /\ UNCHANGED <<panels, currentPanel, formPanel, listVars>>

\* if (success) containerProvider.refresh()
pruneImagesResume(t, ok) ==
    /\ At(t, "pruneImages", "exec")
    /\ FinishNotified(t, ok, FALSE)
    /\ UNCHANGED <<panels, currentPanel, formPanel, listVars>>

inspectContainer(c) ==
    /\ c \in Containers
    /\ StartTask(Task("inspectContainer", 0, c, "exec", <<Cmd("inspect", c)>>))
    /\ UNCHANGED <<panels, currentPanel, formPanel, listVars>>

\* the inspection, if any, is shown in a text document
inspectContainerResume(t, ok) ==
    /\ At(t, "inspectContainer", "exec")
    /\ IF ok THEN Finish(t, FALSE, FALSE) ELSE FinishNotified(t, FALSE, FALSE)
    /\ UNCHANGED <<panels, currentPanel, formPanel, listVars>>

inspectImage(i) ==
    /\ i \in Images
    /\ StartTask(Task("inspectImage", 0, i, "exec", <<Cmd("image inspect", i)>>))
    /\ UNCHANGED <<panels, currentPanel, formPanel, listVars>>

inspectImageResume(t, ok) ==
    /\ At(t, "inspectImage", "exec")
    /\ IF ok THEN Finish(t, FALSE, FALSE) ELSE FinishNotified(t, FALSE, FALSE)
    /\ UNCHANGED <<panels, currentPanel, formPanel, listVars>>

\* What showInputBox resolves to: undefined, the empty string, or a text
InputValues == {"cancel", "empty", "text"}

execInContainer(c) ==
    /\ c \in Containers
    /\ StartTask(Task("execInContainer", 0, c, "input", <<>>))
    /\ UNCHANGED <<panels, currentPanel, formPanel, listVars>>

\* if (command !== undefined): an empty command goes to a terminal too
execInContainerInputUnlessCancelled(t, v) ==
    /\ At(t, "execInContainer", "input")
    /\ tasks' = [tasks EXCEPT ![t] =
                    [@ EXCEPT !.pc = "done", !.inputs = Append(@, v),
                              !.cmds = IF v # "cancel"
                                       THEN Append(@, Cmd("exec --interactive --tty",
                                                          tasks[t].target))
                                       ELSE @]]
    /\ UNCHANGED <<panels, currentPanel, formPanel, listVars>>

\* if (command !== undefined && command): the command goes to a terminal
execInContainerInput(t, v) ==
    /\ At(t, "execInContainer", "input")
    /\ tasks' = [tasks EXCEPT ![t] =
                    [@ EXCEPT !.pc = "done", !.inputs = Append(@, v),
                              !.cmds = IF v = "text"
                                       THEN Append(@, Cmd("exec --interactive --tty",
                                                          tasks[t].target))
                                       ELSE @]]
    /\ UNCHANGED <<panels, currentPanel, formPanel, listVars>>

pullImage ==
    /\ StartTask(Task("pullImage", 0, "", "input", <<>>))
    /\ UNCHANGED <<panels, currentPanel, formPanel, listVars>>

\* if (image !== undefined && image) { pullImage(image); refresh() }
pullImageInput(t, v) ==
    /\ At(t, "pullImage", "input")
    /\ tasks' = [tasks EXCEPT ![t] =
                    [@ EXCEPT !.pc = "done", !.inputs = Append(@, v),
                              !.cmds = IF v = "text"
                                       THEN Append(@, Cmd("image pull", "text")) ELSE @,
                              !.refreshed = (v = "text")]]
    /\ UNCHANGED <<panels, currentPanel, formPanel, listVars>>

runFromImage(i) ==
    /\ i \in Images
    /\ StartTask(Task("runFromImage", 0, i, "input", <<>>))
    /\ UNCHANGED <<panels, currentPanel, formPanel, listVars>>

\* the name prompt, then the ports prompt; undefined at either returns; then
\* runContainer sends the run command to a terminal and, when ports were
\* given, schedules the message that names them
runFromImageInput(t, v) ==
    /\ At(t, "runFromImage", "input")
    /\ tasks' = [tasks EXCEPT ![t] =
                    IF v = "cancel"
                    THEN [@ EXCEPT !.pc = "done", !.inputs = Append(@, v)]
                    ELSE IF Len(tasks[t].inputs) = 0
                    THEN [@ EXCEPT !.inputs = Append(@, v)]
                    ELSE [@ EXCEPT !.pc = "done", !.inputs = Append(@, v),
                                   !.cmds = Append(@, Cmd("run", tasks[t].target)),
                                   !.refreshed = TRUE, !.statusBar = TRUE,
                                   !.notice = (v = "text")]]
    /\ UNCHANGED <<panels, currentPanel, formPanel, listVars>>

\* without a workspace folder the command shows an error and returns
buildImage(hasWorkspace) ==
    /\ StartTask([Task("buildImage", 0, "", IF hasWorkspace THEN "input" ELSE "done", <<>>)
                     EXCEPT !.notice = ~hasWorkspace])
    /\ UNCHANGED <<panels, currentPanel, formPanel, listVars>>

\* context path, tag, dockerfile; undefined at any returns; then
\* if (contextPath) { buildImage(...); refresh() }
buildImageInput(t, v) ==
    /\ At(t, "buildImage", "input")
    /\ tasks' = [tasks EXCEPT ![t] =
                    IF v = "cancel"
                    THEN [@ EXCEPT !.pc = "done", !.inputs = Append(@, v)]
                    ELSE IF Len(tasks[t].inputs) < 2
                    THEN [@ EXCEPT !.inputs = Append(@, v)]
                    ELSE IF tasks[t].inputs[1] = "text"
                    THEN [@ EXCEPT !.pc = "done", !.inputs = Append(@, v),
                                   !.cmds = Append(@, Cmd("build", "text")),
                                   !.refreshed = TRUE]
                    ELSE [@ EXCEPT !.pc = "done", !.inputs = Append(@, v)]]
    /\ UNCHANGED <<panels, currentPanel, formPanel, listVars>>

\* advancedRun / advancedRunFromImage: ContainerFormPanel.createOrShow
advancedRun ==
    /\ ~formPanel
    /\ formPanel' = TRUE
    /\ UNCHANGED <<tasks, panels, currentPanel, listVars>>

\* The form's runContainer message: _handleRunContainer sends the run command
\* to a terminal; on success it shows a notice and disposes the form panel
formRunContainer(i) ==
    /\ formPanel
    /\ i \in Images
    /\ StartTask([Task("form.runContainer", 0, i, "done", <<Cmd("run", i)>>)
                     EXCEPT !.refreshed = FALSE, !.notice = TRUE])
    /\ formPanel' = FALSE
    /\ UNCHANGED <<panels, currentPanel, listVars>>

(* ---------------------- ContainerDetailsPanel -------------------------- *)

NoHtml == [basic |-> "", inspected |-> ""]

LivePanel(p) == p \in 1..Len(panels) /\ ~panels[p].disposed

\* ContainerDetailsPanel.dispose() of panel object p
Disposed(p) ==
    /\ currentPanel' = 0
    /\ panels' = [panels EXCEPT ![p].disposed = TRUE]

\* The status of the records the tree hands to showContainerDetails: the
\* tree lists running containers (showAllContainers starts false)
TreeStatus == "running"

\* What a later listing may say of a container
ListedStatuses == {"running", "stopped"}

\* showContainerDetails -> createOrShow: an existing current panel takes the
\* record, otherwise a panel is created; either way _update starts by
\* asking for the inspection of this._container.id
createOrShow(c) ==
    /\ c \in Containers
    /\ IF currentPanel # 0
       THEN /\ panels' = [panels EXCEPT ![currentPanel].container = c,
                                        ![currentPanel].status = TreeStatus]
            /\ StartTask(Task("_update", currentPanel, c, "inspect", <<Cmd("inspect", c)>>))
            /\ UNCHANGED currentPanel
       ELSE /\ Len(panels) < MaxPanels
            /\ panels' = Append(panels, [container |-> c, status |-> TreeStatus,
                                         disposed |-> FALSE, html |-> NoHtml])
            /\ currentPanel' = Len(panels) + 1
            /\ StartTask(Task("_update", Len(panels) + 1, c, "inspect",
                              <<Cmd("inspect", c)>>))
    /\ UNCHANGED <<formPanel, listVars>>

\* The rest of _update: the html shows this._container and the inspection
UpdateHtml(t) ==
    panels' = [panels EXCEPT ![tasks[t].panel].html =
                  [basic |-> panels[tasks[t].panel].container,
                   inspected |-> tasks[t].target]]

updateResume(t, ok) ==
    /\ At(t, "_update", "inspect")
    /\ UpdateHtml(t)
    /\ IF ok THEN Finish(t, FALSE, FALSE) ELSE FinishNotified(t, FALSE, FALSE)
    /\ UNCHANGED <<currentPanel, formPanel, listVars>>

\* The user closes the panel: onDidDispose -> dispose()
closePanel(p) ==
    /\ LivePanel(p)
    /\ Disposed(p)
    /\ UNCHANGED <<tasks, formPanel, listVars>>

panelStartContainer(p) ==
    /\ LivePanel(p)
    /\ StartTask(Task("panel.startContainer", p, panels[p].container, "exec",
                      <<Cmd("start", panels[p].container)>>))
    /\ UNCHANGED <<panels, currentPanel, formPanel, listVars>>

panelStopContainer(p) ==
    /\ LivePanel(p)
    /\ StartTask(Task("panel.stopContainer", p, panels[p].container, "exec",
                      <<Cmd("stop", panels[p].container)>>))
    /\ UNCHANGED <<panels, currentPanel, formPanel, listVars>>

\* The refresh message
panelRefresh(p) ==
    /\ LivePanel(p)
    /\ StartTask(Task("panel.refresh", p, panels[p].container, "listJson",
                      <<Cmd("list --all --format json", "")>>))
    /\ UNCHANGED <<panels, currentPanel, formPanel, listVars>>

\* After start/stop returned: this._refreshContainer(), which starts
\* listContainers(true)
panelStartStopResume(t, ok) ==
    /\ t \in 1..Len(tasks)
    /\ tasks[t].kind \in {"panel.startContainer", "panel.stopContainer"}
    /\ tasks[t].pc = "exec"
    /\ tasks' = [tasks EXCEPT ![t] =
                    [@ EXCEPT !.pc = "listJson", !.notice = TRUE,
                              !.cmds = Append(@, Cmd("list --all --format json", ""))]]
    /\ UNCHANGED <<panels, currentPanel, formPanel, listVars>>

InRefreshContainer(t, pc) ==
    /\ t \in 1..Len(tasks)
    /\ tasks[t].kind \in {"panel.startContainer", "panel.stopContainer", "panel.refresh"}
    /\ tasks[t].pc = pc

\* listContainers, after the JSON command: on failure it returns [], so
\* _refreshContainer finds nothing and returns
refreshContainerJson(t, ok) ==
    /\ InRefreshContainer(t, "listJson")
    /\ tasks' = [tasks EXCEPT ![t] =
                    IF ok THEN [@ EXCEPT !.pc = "listTable",
                                         !.cmds = Append(@, Cmd("ls --all", ""))]
                    ELSE [@ EXCEPT !.pc = "done", !.notice = TRUE]]
    /\ UNCHANGED <<panels, currentPanel, formPanel, listVars>>

\* _refreshContainer assigning the listing's record whether or not it was found
refreshContainerTableUnchecked(t, ok, found, st) ==
    /\ InRefreshContainer(t, "listTable")
    /\ tasks' = [tasks EXCEPT ![t] =
                    IF ok /\ found
                    THEN [@ EXCEPT !.pc = "inspect",
                                   !.target = panels[tasks[t].panel].container,
                                   !.cmds = Append(@, Cmd("inspect",
                                                panels[tasks[t].panel].container))]
                    ELSE [@ EXCEPT !.pc = "done", !.notice = @ \/ ~ok]]
    /\ panels' = [panels EXCEPT ![tasks[t].panel].status = st]
    /\ UNCHANGED <<currentPanel, formPanel, listVars>>

\* listContainers returned; found: the listing has this._container.id, with
\* status st.  Then this._container = updated and _update asks for the
\* inspection
refreshContainerTable(t, ok, found, st) ==
    /\ InRefreshContainer(t, "listTable")
    /\ tasks' = [tasks EXCEPT ![t] =
                    IF ok /\ found
                    THEN [@ EXCEPT !.pc = "inspect",
                                   !.target = panels[tasks[t].panel].container,
                                   !.cmds = Append(@, Cmd("inspect",
                                                panels[tasks[t].panel].container))]
                    ELSE [@ EXCEPT !.pc = "done", !.notice = @ \/ ~ok]]
    /\ panels' = IF ok /\ found
                 THEN [panels EXCEPT ![tasks[t].panel].status = st]
                 ELSE panels
    /\ UNCHANGED <<currentPanel, formPanel, listVars>>

refreshContainerUpdate(t, ok) ==
    /\ InRefreshContainer(t, "inspect")
    /\ UpdateHtml(t)
    /\ IF ok THEN Finish(t, FALSE, FALSE) ELSE FinishNotified(t, FALSE, FALSE)
    /\ UNCHANGED <<currentPanel, formPanel, listVars>>

\* The removeContainer message: the prompt names this._container
panelRemoveContainer(p) ==
    /\ LivePanel(p)
    /\ StartTask(Task("panel.removeContainer", p, panels[p].container, "confirm", <<>>))
    /\ UNCHANGED <<panels, currentPanel, formPanel, listVars>>

\* on 'Yes': removeContainer(this._container.id), read after the prompt
panelRemoveContainerConfirm(t, answer) ==
    /\ At(t, "panel.removeContainer", "confirm")
    /\ AnswerConfirm(t, answer, Cmd("delete", panels[tasks[t].panel].container))
    /\ UNCHANGED <<panels, currentPanel, formPanel, listVars>>

\* after the removal: this.dispose()
panelRemoveContainerResume(t, ok) ==
    /\ At(t, "panel.removeContainer", "exec")
    /\ Disposed(tasks[t].panel)
    /\ FinishNotified(t, FALSE, FALSE)
    /\ UNCHANGED <<formPanel, listVars>>

UINext ==
    \/ \E c \in Containers :
          \/ startContainer(c) \/ stopContainer(c)
          \/ removeContainer(c) \/ forceRemoveContainer(c)
          \/ inspectContainer(c) \/ execInContainer(c)
          \/ createOrShow(c)
    \/ \E i \in Images :
          \/ removeImage(i) \/ inspectImage(i) \/ runFromImage(i) \/ formRunContainer(i)
    \/ pruneImages \/ pullImage \/ advancedRun
    \/ \E w \in BOOLEAN : buildImage(w)
    \/ \E t \in 1..MaxTasks + 1, answer \in Answers :
          \/ removeContainerConfirm(t, answer)
          \/ forceRemoveContainerConfirm(t, answer)
          \/ removeImageConfirm(t, answer)
          \/ pruneImagesConfirm(t, answer)
          \/ panelRemoveContainerConfirm(t, answer)
    \/ \E t \in 1..MaxTasks + 1, v \in InputValues :
          \/ execInContainerInput(t, v) \/ pullImageInput(t, v)
          \/ runFromImageInput(t, v) \/ buildImageInput(t, v)
    \/ \E t \in 1..MaxTasks + 1, ok \in BOOLEAN :
          \/ startContainerResume(t, ok) \/ stopContainerResume(t, ok)
          \/ removeContainerResume(t, ok) \/ forceRemoveContainerResume(t, ok)
          \/ removeImageResume(t, ok) \/ pruneImagesResume(t, ok)
          \/ inspectContainerResume(t, ok) \/ inspectImageResume(t, ok)
          \/ updateResume(t, ok)
          \/ panelStartStopResume(t, ok)
          \/ refreshContainerJson(t, ok)
          \/ \E found \in BOOLEAN, st \in ListedStatuses :
                refreshContainerTable(t, ok, found, st)
          \/ refreshContainerUpdate(t, ok)
          \/ panelRemoveContainerResume(t, ok)
    \/ \E p \in 1..MaxPanels + 1 :
          \/ closePanel(p)
          \/ panelStartContainer(p) \/ panelStopContainer(p)
          \/ panelRefresh(p) \/ panelRemoveContainer(p)

(* ----------------------- ContainerProvider toggle ----------------------- *)

\* The toggleShowAllContainers command: toggleShowAll flips the flag and
\* calls refresh(), all in the turn of the command
toggleShowAll ==
    /\ StartTask([Task("toggleShowAllContainers", 0, "", "done", <<>>)
                     EXCEPT !.refreshed = TRUE])
    /\ showAllContainers' = ~showAllContainers
    /\ UNCHANGED <<panels, currentPanel, formPanel, listingVars, runVars, exVars,
                   refreshVars, activateVars>>

\* The detail panel and the toggle
PanelNext ==
    \/ \E c \in Containers : createOrShow(c)
    \/ toggleShowAll
    \/ \E t \in 1..MaxTasks + 1, answer \in Answers : panelRemoveContainerConfirm(t, answer)
    \/ \E t \in 1..MaxTasks + 1, ok \in BOOLEAN :
          \/ updateResume(t, ok)
          \/ panelStartStopResume(t, ok)
          \/ refreshContainerJson(t, ok)
          \/ \E found \in BOOLEAN, st \in ListedStatuses :
                refreshContainerTable(t, ok, found, st)
          \/ refreshContainerUpdate(t, ok)
          \/ panelRemoveContainerResume(t, ok)
    \/ \E p \in 1..MaxPanels + 1 :
          \/ closePanel(p)
          \/ panelStartContainer(p) \/ panelStopContainer(p)
          \/ panelRefresh(p) \/ panelRemoveContainer(p)

UIInit == ListIdle /\ UIStart /\ RunIdle /\ ExIdle /\ RefreshIdle /\ Activated

SpecUI == UIInit /\ [][UINext]_vars

SpecPanel == UIInit /\ [][PanelNext]_vars

\* The detail panel is open on a container and shows it: createOrShow has
\* run and its _update has set the html
PanelOpenInit ==
    /\ \E c \in Containers :
          panels = << [container |-> c, status |-> TreeStatus, disposed |-> FALSE,
                       html |-> [basic |-> c, inspected |-> c]] >>
    /\ currentPanel = 1
    /\ tasks = <<>>
    /\ formPanel = FALSE
    /\ ListIdle /\ RunIdle /\ ExIdle /\ RefreshIdle /\ Activated

SpecPanelOpen == PanelOpenInit /\ [][PanelNext]_vars

(* ==================== properties of the dispatcher ===================== *)

DestructiveCmds == {"delete", "delete --force", "image delete", "image prune --force"}

IssuedDestructive(task) ==
    \E k \in 1..Len(task.cmds) : task.cmds[k].cmd \in DestructiveCmds

\* C2: a destructive action (remove, force-remove, remove image, prune), from
\* the tree/palette or from the detail panel, issues its delete/prune command
\* only after the user answered 'Yes' to its confirmation prompt; on 'No' or
\* on dismissing the prompt it issues no command.
C2_DestructiveOnlyAfterYes ==
    \A t \in 1..Len(tasks) :
        /\ IssuedDestructive(tasks[t]) => tasks[t].answer = "Yes"
        /\ tasks[t].answer \in {"No", "dismissed"} => tasks[t].cmds = <<>>

C2_Witness ==
    /\ Len(tasks) = 2
    /\ tasks[1].kind = "_update"
    /\ tasks[2].kind = "panel.removeContainer"
    /\ tasks[2].answer = "Yes"
    /\ tasks[2].cmds = <<Cmd("delete", "c1")>>
    /\ tasks[2].pc = "done"

\* The actions of the dispatcher: start, stop, remove, force-remove, remove
\* image, prune, run, advanced run, pull, build, exec, inspect, from the tree,
\* the detail panel and the advanced-run form
DispatchedKinds ==
    {"startContainer", "stopContainer", "removeContainer", "forceRemoveContainer",
     "removeImage", "pruneImages", "runFromImage", "form.runContainer", "pullImage",
     "buildImage", "execInContainer", "inspectContainer", "inspectImage",
     "panel.startContainer", "panel.stopContainer", "panel.removeContainer"}

\* C3: every dispatched action is followed by a full listing refresh of the
\* tree view: a handler that issued its command has called
\* containerProvider.refresh() by the time it returns.
C3_EveryActionRefreshesTree ==
    \A t \in 1..Len(tasks) :
        (/\ tasks[t].kind \in DispatchedKinds
         /\ tasks[t].cmds # <<>>
         /\ tasks[t].pc = "done")
        => tasks[t].refreshed

(* ------------------------- prompts for text ---------------------------- *)

\* The actions that prompt for text, with the number of their prompts: exec
\* (command), pull (image name), run from image (name, ports), build (context
\* path, tag, dockerfile)
PromptCount(kind) ==
    CASE kind = "execInContainer" -> 1
      [] kind = "pullImage" -> 1
      [] kind = "runFromImage" -> 2
      [] kind = "buildImage" -> 3
      [] OTHER -> 0

Cancelled(task) == \E k \in 1..Len(task.inputs) : task.inputs[k] = "cancel"

\* Every prompt of the action was answered, none was cancelled
AllAnswered(task) ==
    /\ PromptCount(task.kind) > 0
    /\ Len(task.inputs) = PromptCount(task.kind)
    /\ ~Cancelled(task)

CancelAbortsSilently ==
    \A t \in 1..Len(tasks) :
        (PromptCount(tasks[t].kind) > 0 /\ Cancelled(tasks[t])) =>
            /\ tasks[t].pc = "done"
            /\ tasks[t].cmds = <<>>
            /\ ~tasks[t].notice
            /\ ~tasks[t].refreshed

\* C15 as stated: cancelling a prompt ends the action with no command and no
\* notice, whereas after confirmed inputs, empty ones included, the action
\* goes ahead and issues its command.
C15_Original ==
    /\ CancelAbortsSilently
    /\ \A t \in 1..Len(tasks) : AllAnswered(tasks[t]) => tasks[t].cmds # <<>>

\* The inputs that are tested for emptiness before the command is issued
RequiredInput(kind) ==
    CASE kind = "execInContainer" -> 1
      [] kind = "pullImage" -> 1
      [] kind = "buildImage" -> 1
      [] OTHER -> 0

\* C15 (amended): cancelling a prompt ends the action with no command and no
\* notice; after confirmed inputs the action issues its command when the
\* input is optional (name and ports of run from image, tag and dockerfile
\* of build), whereas an empty exec command, an empty image name to pull or
\* an empty build context path ends the action with no command and no notice.
C15_EmptyProceedsWhenOptional ==
    /\ CancelAbortsSilently
    /\ \A t \in 1..Len(tasks) :
          AllAnswered(tasks[t]) =>
              LET r == RequiredInput(tasks[t].kind)
              IN  IF r = 0 \/ tasks[t].inputs[r] = "text"
                  THEN Len(tasks[t].cmds) = 1
                  ELSE tasks[t].cmds = <<>> /\ ~tasks[t].notice /\ ~tasks[t].refreshed

\* A cancelled build next to a run from image with two empty inputs
C15_Witness ==
    \E t, u \in 1..Len(tasks) :
        /\ tasks[t].kind = "buildImage"
        /\ tasks[t].inputs = <<"empty", "cancel">>
        /\ tasks[u].kind = "runFromImage"
        /\ tasks[u].inputs = <<"empty", "empty">>
        /\ tasks[u].cmds # <<>>

(* ------------------ who assigns the unsynchronised state ---------------- *)

\* The step dispatches a command or message handler: the turn of a user event
HandlerDispatched == Len(tasks') = Len(tasks) + 1

DispatchedKind == tasks'[Len(tasks')].kind

\* The cached record of panel object p is assigned another value by the step
RecordAssigned(p) ==
    \/ panels'[p].container # panels[p].container
    \/ panels'[p].status # panels[p].status

\* The step is the continuation of _refreshContainer of panel p after its
\* awaited listContainers(true), going on to _update
AfterListing(p) ==
    \E t \in 1..Len(tasks) :
        /\ InRefreshContainer(t, "listTable")
        /\ tasks[t].panel = p
        /\ tasks'[t].pc = "inspect"

\* C17 as stated: the cached record of a detail panel and the show-all toggle
\* are assigned only in the turn in which a user event is dispatched, never
\* in a continuation after an awaited external command.
C17_Original ==
    [][ /\ \A p \in 1..Len(panels) : RecordAssigned(p) => HandlerDispatched
        /\ showAllContainers' # showAllContainers => HandlerDispatched ]_vars

\* C17 (amended): the show-all toggle is assigned only in the turn of the
\* toggle command; the cached record of a detail panel is assigned in the
\* turn of showContainerDetails (createOrShow) and, besides, by
\* _refreshContainer in the continuation after its awaited listing, which
\* replaces the record by the listed record of the same id.
C17_AssignedInTurnOrAfterListing ==
    [][ /\ \A p \in 1..Len(panels) :
              RecordAssigned(p) =>
                  \/ HandlerDispatched /\ DispatchedKind = "_update"
                  \/ AfterListing(p) /\ panels'[p].container = panels[p].container
        /\ showAllContainers' # showAllContainers =>
              HandlerDispatched /\ DispatchedKind = "toggleShowAllContainers" ]_vars

\* A panel whose record was replaced by a listing that found the container stopped
C17_Witness ==
    \E p \in 1..Len(panels) :
        /\ panels[p].status = "stopped"
        /\ \E t \in 1..Len(tasks) :
              /\ tasks[t].kind = "panel.refresh"
              /\ tasks[t].panel = p
              /\ tasks[t].pc \in {"inspect", "done"}

(* --------------------- the image named to the CLI ---------------------- *)

\* C18: remove image, inspect image, run from image and advanced run from
\* image name the image to the CLI by the reference string it was listed with.
C18_ImageNamedByReference ==
    imageCmd.item # 0 => imageCmd.arg = imageResult.value[imageCmd.item].reference

(* ----------------------- the periodic refresh -------------------------- *)

\* C16: the autoRefresh setting governs the periodic refresh: with 0 the
\* callback never runs, with N seconds it has run once per N seconds elapsed.
C16_SettingGovernsTimer ==
    /\ autoRefresh = 0 => ticks = 0
    /\ autoRefresh > 0 => ticks <= clock \div autoRefresh
    /\ (autoRefresh > 0 /\ ~TimerDue) => ticks = clock \div autoRefresh

StatusPasses == SelectSeq(passes, LAMBDA ps : ps.origin # "tree")

ListingCmds == {"container list --format json", "container list --all --format json"}

\* A pass stays as it is or moves on; it is never withdrawn or restarted
PassKept(k) ==
    /\ k <= Len(passes')
    /\ passes'[k].origin = passes[k].origin
    /\ \/ passes'[k] = passes[k]
       \/ passes[k].pc = "listJson" /\ passes'[k].pc \in {"listTable", "done"}
       \/ passes[k].pc = "listTable" /\ passes'[k].pc = "done"
    /\ passes[k].pc = "done" => passes'[k] = passes[k]

\* C20: refreshes are neither joined nor cancelled: every timer callback and
\* every refreshContainers command starts a listing pass of its own, with its
\* own CLI invocations (the JSON command and, once that has returned, the
\* table command), also while an earlier pass is in flight; no started pass
\* is withdrawn, and each one runs to its end.
C20_EveryRefreshRunsItsOwnPass ==
    /\ [](Len(StatusPasses) = 1 + ticks + refreshCmds)
    /\ [](\A k \in 1..Len(passes) :
             /\ passes[k].cmds[1] \in ListingCmds
             /\ Len(passes[k].cmds) = (IF passes[k].pc = "listJson" THEN 1
                                       ELSE IF passes[k].pc = "listTable" THEN 2
                                       ELSE Len(passes[k].cmds))
             /\ Len(passes[k].cmds) <= 2)
    /\ [][\A k \in 1..Len(passes) : PassKept(k)]_vars
    /\ \A k \in 1..MaxPasses + 1 :
          [](k <= Len(passes) => <>(k <= Len(passes) /\ passes[k].pc = "done"))

\* A pass that was started by the timer while another was in flight has
\* issued both its commands and ended, as has the earlier one
C20_Witness ==
    \E k \in 2..Len(passes) :
        /\ passes[k].origin = "timer"
        /\ passes[k].busy
        /\ passes[k].pc = "done"
        /\ Len(passes[k].cmds) = 2
        /\ passes[1].pc = "done"
        /\ statusBar.by = 1

(* ----------------------------- activation ------------------------------ *)

\* How many times activate has run the command
TimesRun(cmd) == Cardinality({k \in 1..Len(activateCmds) : activateCmds[k] = cmd})

\* The listing commands issued so far, by any pass
ListingsIssued == \E k \in 1..Len(passes) : Len(passes[k].cmds) > 0

\* C21: on macOS activate runs `container system start` exactly once, and
\* no listing command is issued before it has run and returned; on any other
\* platform activate issues no command and registers no view, command or timer.
C21_SystemStartOnceAndFirst ==
    /\ TimesRun("container system start") <= 1
    /\ apc = "active" => TimesRun("container system start") = 1
    /\ (ListingsIssued \/ ticks > 0 \/ refreshCmds > 0) =>
           /\ apc = "active"
           /\ TimesRun("container system start") = 1
    /\ platform # "darwin" =>
           /\ activateCmds = <<>>
           /\ registered = {}
           /\ passes = <<>>
           /\ ticks = 0 /\ refreshCmds = 0 /\ clock = 0
           /\ apc \in {"start", "unsupported"}

\* On macOS the system was started once, and the first listing, a timer
\* callback's listing and the tree's listing have been issued after it
C21_Witness ==
    /\ platform = "darwin"
    /\ activateCmds = <<"which container", "container system start">>
    /\ Len(passes) = 3
    /\ passes[1].origin = "activate"
    /\ passes[2].origin = "timer"
    /\ passes[3].origin = "tree"
    /\ passes[3].pc = "done"

\* C22: a missing CLI does not end activation: `which container` runs once,
\* the advisory is shown once, and whatever is selected activate goes on to
\* `container system start`; whether that succeeds or fails, activate
\* registers the tree view, the status bar item, the commands and the timer.
C22_MissingCliNonFatal ==
    /\ [](platform = "darwin" =>
             /\ apc # "unsupported"
             /\ TimesRun("which container") <= 1
             /\ apc # "start" => TimesRun("which container") = 1
             /\ apc = "active" <=> registered = Registrations
             /\ apc # "active" => registered = {}
             /\ apc = "active" => /\ passes # <<>>
                                  /\ passes[1].origin = "activate")
    /\ [][/\ apc = "which" =>
               apc' \in {"advisory", "systemStart"}
          /\ apc = "advisory" =>
               /\ apc' = "systemStart"
               /\ activateCmds' = Append(activateCmds, "container system start")
          /\ apc = "systemStart" =>
               /\ apc' = "active"
               /\ registered' = Registrations
               /\ activateCmds' = activateCmds]_<<apc, activateCmds, messages, registered>>

\* The CLI was missing, the advisory was dismissed, the system failed to
\* start, and the extension is registered and its timer has fired
C22_Witness ==
    /\ messages = <<"Apple Container CLI is not installed",
                    "Failed to start container system">>
    /\ apc = "active"
    /\ registered = Registrations
    /\ ticks > 0

(* --------------------------- single attempt ---------------------------- *)

\* The commands of one handler invocation are pairwise different
NoRepeat(cmds) == \A i, j \in 1..Len(cmds) : i # j => cmds[i] # cmds[j]

\* In one step a handler invocation keeps the commands it has issued and
\* issues at most one more, which it had not issued before
IssuesAtMostOneNew(t) ==
    \/ tasks'[t].cmds = tasks[t].cmds
    \/ /\ Len(tasks'[t].cmds) = Len(tasks[t].cmds) + 1
       /\ SubSeq(tasks'[t].cmds, 1, Len(tasks[t].cmds)) = tasks[t].cmds
       /\ \A i \in 1..Len(tasks[t].cmds) :
             tasks[t].cmds[i] # tasks'[t].cmds[Len(tasks'[t].cmds)]

\* C24: every CLI call is single-attempt: within one handler invocation,
\* the panel's listing pass included, each command line is invoked at most
\* once, whether it succeeded or failed; an invocation that has ended
\* issues nothing more.
C24_SingleAttempt ==
    /\ [](\A t \in 1..Len(tasks) : NoRepeat(tasks[t].cmds))
    /\ [][\A t \in 1..Len(tasks) :
             /\ IssuesAtMostOneNew(t)
             /\ tasks[t].pc = "done" => tasks'[t].cmds = tasks[t].cmds]_vars

\* The panel's refresh ended after its JSON listing command failed, with
\* that one command issued; the inspection before it was issued once
C24_Witness ==
    /\ Len(tasks) = 2
    /\ tasks[1].kind = "_update"
    /\ tasks[1].cmds = <<Cmd("inspect", "c1")>>
    /\ tasks[2].kind = "panel.refresh"
    /\ tasks[2].pc = "done"
    /\ tasks[2].notice
    /\ tasks[2].cmds = <<Cmd("list --all --format json", "")>>

(* --------------------------- the detail panel -------------------------- *)

\* The removals the detail panel has issued
PanelRemovals ==
    { t \in 1..Len(tasks) : /\ tasks[t].kind = "panel.removeContainer"
                            /\ tasks[t].cmds # <<>> }

\* C25: the container the detail panel deletes after 'Yes' is the container
\* its confirmation prompt named, also when the panel was given another
\* container while the prompt was open.
C25_RemovesTheNamedContainer ==
    \A t \in PanelRemovals : tasks[t].cmds = <<Cmd("delete", tasks[t].named)>>

LivePanels == { p \in 1..Len(panels) : ~panels[p].disposed }

\* C26: the detail panel is a singleton: at most one panel is live, and
\* currentPanel is undefined only when no panel is live.
C26_PanelSingleton ==
    /\ Cardinality(LivePanels) <= 1
    /\ currentPanel = 0 => LivePanels = {}

\* C27: whenever the html of a live detail panel is set, the inspection in
\* it was fetched for the container whose basic information it shows.
C27_HtmlOfOneContainer ==
    \A p \in LivePanels : panels[p].html.inspected = panels[p].html.basic

(* --------------------------- the status bar ---------------------------- *)

\* The listing updateStatusBar started last
LastStatusPass ==
    CHOOSE k \in 1..Len(passes) :
        /\ passes[k].origin # "tree"
        /\ \A j \in k + 1..Len(passes) : passes[j].origin = "tree"

StatusSettled == \A k \in 1..Len(passes) : passes[k].origin = "tree" \/ passes[k].pc = "done"

\* C28: once every status-bar update has completed, the status bar shows
\* the running count of the listing that was started last; a listing that
\* was started earlier never writes over the result of a later one.
C28_LatestListingWins ==
    StatusSettled =>
        /\ statusBar.text = StatusText(passes[LastStatusPass].running)
        /\ statusBar.by = LastStatusPass

\* C29: when a status-bar listing fails, at its JSON command or at its table
\* command, the status bar text becomes 'Container CLI unavailable'.
C29_FailureShowsUnavailable ==
    [][\A k \in 1..Len(passes) :
          (/\ passes[k].origin # "tree"
           /\ \/ passJsonReturns(k, FALSE)
              \/ \E n \in 0..1 : passTableReturns(k, FALSE, n))
          => statusBar'.text = StatusUnavailable]_vars

====
